---- MODULE Spec2Model ----
(***************************************************************************)
(* A model of the fractal-drawing L-system program: the lexer of           *)
(* utils/tokenizer.py, the template compiler of utils/lambda_parser.py,    *)
(* the rewriting engine of l_system/system_base.py and the turtle          *)
(* interpreter of drawning/draw_2d.py.                                     *)
(*                                                                         *)
(* Text is a sequence of one-character strings; Python's None is the       *)
(* string "None", which is no character.  Numbers are fixed-point values   *)
(* in thousandths.                                                         *)
(***************************************************************************)
EXTENDS Integers, Sequences, FiniteSets, TLC

VARIABLES
    lexer,      \* an LSystemLexer object and the position of its tokenize call
    pick,       \* a call of LSystemMixin._pick_rule: the rules, the draw, the rule picked
    lam,        \* a callable of SafeLambdaParser.parse_lambda_string and its last call
    main,       \* a run of main in mode 0: its position, its template, its locals
    l_system,   \* the engine object: axiom, state and rule table
    random,     \* the random module: the stream of its draws
    drawer      \* the drawer object and the locals of its draw call

vars == <<lexer, pick, lam, main, l_system, random, drawer>>

pipeline == <<main, l_system, random, drawer>>

None == "None"

(***************************************************************************)
(* Characters                                                              *)
(***************************************************************************)
\* The characters of [0-9A-Za-z_], in code point order
WordChars ==
    <<"0", "1", "2", "3", "4", "5", "6", "7", "8", "9",
      "A", "B", "C", "D", "E", "F", "G", "H", "I", "J", "K", "L", "M",
      "N", "O", "P", "Q", "R", "S", "T", "U", "V", "W", "X", "Y", "Z",
      "_",
      "a", "b", "c", "d", "e", "f", "g", "h", "i", "j", "k", "l", "m",
      "n", "o", "p", "q", "r", "s", "t", "u", "v", "w", "x", "y", "z">>

Digits == {WordChars[i] : i \in 1 .. 10}

Letters == {WordChars[i] : i \in (11 .. 36) \cup (38 .. 63)}

\* The rank of a word character in code point order
Ord(c) == CHOOSE i \in 1 .. Len(WordChars) : WordChars[i] = c

\* str.isspace() and str.isalnum() on one character
isspace(c) == c = " "

isalnum(c) == c \in Letters \cup Digits

\* s[a..b] of a sequence, 1-based and inclusive; empty when b < a
Slice(s, a, b) == IF b < a THEN <<>> ELSE SubSeq(s, a, b)

RECURSIVE lstrip(_)
lstrip(s) == IF s # <<>> /\ isspace(Head(s)) THEN lstrip(Tail(s)) ELSE s

RECURSIVE rstrip(_)
rstrip(s) ==
    IF s # <<>> /\ isspace(s[Len(s)]) THEN rstrip(Slice(s, 1, Len(s) - 1)) ELSE s

\* str.strip()
strip(s) == rstrip(lstrip(s))

\* sep.join(parts)
RECURSIVE join(_, _)
join(sep, parts) ==
    IF parts = <<>> THEN <<>>
    ELSE IF Len(parts) = 1 THEN parts[1]
    ELSE parts[1] \o sep \o join(sep, Tail(parts))

\* All sequences over S of length at most n
RECURSIVE SeqsUpTo(_, _)
SeqsUpTo(S, n) ==
    IF n = 0 THEN {<<>>}
    ELSE LET shorter == SeqsUpTo(S, n - 1)
         IN  shorter \cup {Append(s, c) : s \in {t \in shorter : Len(t) = n - 1}, c \in S}

(***************************************************************************)
(* Values of the variables of the parts a specification leaves alone       *)
(***************************************************************************)
NoLexer ==
    [sequence |-> <<>>, pos |-> 0, current_char |-> None, pc |-> "idle",
     tokens |-> <<>>, symbol |-> None, params |-> <<>>, current_param |-> <<>>,
     paren_depth |-> 0]

NoPick == [pc |-> "idle", rules |-> <<>>, p |-> 0, picked |-> 0]

NoCallable ==
    [kind |-> "none", template |-> <<>>, param_names |-> <<>>, expected_arg_count |-> 0]

NoResult == [raised |-> FALSE, error |-> "", value |-> <<>>]

NoMatch == [group1 |-> FALSE, text |-> <<>>]

NoLambda ==
    [pc |-> "idle", lambda_str |-> <<>>, callable |-> NoCallable, match |-> NoMatch,
     args |-> <<>>, result |-> NoResult]

NoTemplate ==
    [base_axiom |-> <<>>, rules |-> <<>>, length |-> [kind |-> "int", milli |-> 0],
     angle |-> [kind |-> "int", milli |-> 0], width |-> [kind |-> "int", milli |-> 0],
     iterations |-> 0, drawer_name |-> ""]

NoMain ==
    [pc |-> "idle", template |-> NoTemplate, drawer_class |-> "", init_rules |-> <<>>,
     init_iter |-> 0, token_state |-> <<>>, error |-> "",
     fresh |-> TRUE, returned |-> <<>>, passes |-> 0, whole |-> FALSE]

NoSystem ==
    [axiom |-> <<>>, state |-> <<>>, rules |-> <<>>,
     pc |-> "idle", n_iter |-> 0, i |-> 0, k |-> 0, new_state |-> <<>>,
     scan |-> 1, out |-> <<>>]

NoRandom == [stream |-> <<0>>, next |-> 1]

NoDrawer ==
    [pc |-> "none", kind |-> "", base_width |-> 0, base_length |-> 0, base_angle |-> 0,
     tokens |-> <<>>, next |-> 1, segments |-> <<>>, colors |-> <<>>, stack |-> <<>>,
     depth |-> 0, x |-> 0, y |-> 0, angle |-> 0,
     min_x |-> 0, max_x |-> 0, min_y |-> 0, max_y |-> 0,
     max_depth |-> 0, warnings |-> 0, view_box |-> <<>>]

NoPipeline ==
    /\ main = NoMain
    /\ l_system = NoSystem
    /\ random = NoRandom
    /\ drawer = NoDrawer

(***************************************************************************)
(* LSystemMixin._pick_rule (l_system/system_base.py)                       *)
(*                                                                         *)
(* A rule is the tuple (replacement, pattern, probability) of add_rules,   *)
(* a record here; a probability and a draw of random.random() are in       *)
(* thousandths, so a draw lies in 0 .. 999.                                *)
(***************************************************************************)
MaxRules == 3

\* The loop of _pick_rule from rule i on: the index of the rule returned
RECURSIVE pick_loop(_, _, _, _)
pick_loop(rules, p, i, cumulative) ==
    IF i > Len(rules) THEN Len(rules)
    ELSE IF p <= cumulative + rules[i].prob THEN i
    ELSE pick_loop(rules, p, i + 1, cumulative + rules[i].prob)

RECURSIVE pick_loop_strict(_, _, _, _)
pick_loop_strict(rules, p, i, cumulative) ==
    IF i > Len(rules) THEN Len(rules)
    ELSE IF p < cumulative + rules[i].prob THEN i
    ELSE pick_loop_strict(rules, p, i + 1, cumulative + rules[i].prob)

\* The index in rules of the rule _pick_rule returns when random.random()
\* returns p; with one rule random.random() is not called
pick_index_strict(rules, p) ==
    IF Len(rules) = 1 THEN 1 ELSE pick_loop_strict(rules, p, 1, 0)

pick_index(rules, p) ==
    IF Len(rules) = 1 THEN 1 ELSE pick_loop(rules, p, 1, 0)

pick_rule(rules, p) == rules[pick_index(rules, p)]

(***************************************************************************)
(* LSystemLexer (utils/tokenizer.py)                                       *)
(***************************************************************************)
MaxLen == 4

LexAlphabet == {"F", "A", "1", "(", ")", ",", "+", "-", "[", "]", " "}

\* The two inputs the specification quotes, and one that ends inside a list
LexExamples ==
    {<<"F", "T", "(", "1", ",", "2", ")">>, <<"A", "B">>, <<"F", "(", "1", ",", "2">>}

LexInputs == SeqsUpTo(LexAlphabet, MaxLen) \cup LexExamples

\* LSystemLexer.__init__
LSystemLexer(sequence) ==
    [sequence      |-> sequence,
     pos           |-> 0,
     current_char  |-> IF sequence # <<>> THEN sequence[1] ELSE None,
     pc            |-> "tokenize",
     tokens        |-> <<>>,
     symbol        |-> None,
     params        |-> <<>>,
     current_param |-> <<>>,
     paren_depth   |-> 0]

\* LSystemLexer.advance
advance(L) ==
    [L EXCEPT !.pos = L.pos + 1,
              !.current_char = IF L.pos + 1 >= Len(L.sequence)
                               THEN None
                               ELSE L.sequence[L.pos + 2]]

\* LSystemLexer.skip_whitespace
RECURSIVE skip_whitespace(_)
skip_whitespace(L) ==
    IF L.current_char # None /\ isspace(L.current_char)
    THEN skip_whitespace(advance(L))
    ELSE L

\* The if/elif chain of tokenize on the current character, after the
\* whitespace has been skipped.  None reaches the chain only without the
\* `is None: break` guard, and None.isalnum() raises AttributeError.
tokenize_branch_unguarded(c) ==
    IF c = "[" THEN "["
    ELSE IF c = "]" THEN "]"
    ELSE IF c = "+" THEN "+"
    ELSE IF c = "-" THEN "-"
    ELSE IF c = None THEN "raise"
    ELSE IF isalnum(c) THEN "alnum"
    ELSE "other"

tokenize_branch(c) ==
    IF c = None THEN "break" ELSE tokenize_branch_unguarded(c)

\* params.append(current_param.strip()) when the stripped text is non-empty
append_param(params, current_param) ==
    IF strip(current_param) # <<>>
    THEN Append(params, strip(current_param))
    ELSE params

\* The first lines of read_params: return [] unless the current character
\* is "(", else skip it and start the loop
read_params_enter(L) ==
    IF L.current_char # "("
    THEN [L EXCEPT !.params = <<>>, !.pc = "return_params"]
    ELSE [advance(L) EXCEPT !.params = <<>>,
                            !.current_param = <<>>,
                            !.paren_depth = 1,
                            !.pc = "read_params"]

\* One iteration of the while loop of read_params
read_params_no_advance(L) ==
    LET c == L.current_char
    IN  IF c = "("
        THEN [L EXCEPT !.paren_depth = L.paren_depth + 1,
                       !.current_param = Append(L.current_param, c)]
        ELSE IF c = ")"
        THEN IF L.paren_depth - 1 = 0
             THEN [L EXCEPT !.paren_depth = 0,
                            !.params = append_param(L.params, L.current_param)]
             ELSE [L EXCEPT !.paren_depth = L.paren_depth - 1,
                            !.current_param = Append(L.current_param, c)]
        ELSE IF c = "," /\ L.paren_depth = 1
        THEN [L EXCEPT !.params = append_param(L.params, L.current_param),
                       !.current_param = <<>>]
        ELSE [L EXCEPT !.current_param = Append(L.current_param, c)]

read_params_step(L) == advance(read_params_no_advance(L))

\* The token text with a blank between the symbol and its list
render_token_spaced(symbol, params) ==
    IF params # <<>>
    THEN <<symbol>> \o <<" ", "(">> \o join(<<",", " ">>, params) \o <<")">>
    ELSE <<symbol>>

\* f"{symbol}({", ".join(params)})" if params else symbol
render_token(symbol, params) ==
    IF params # <<>>
    THEN <<symbol>> \o <<"(">> \o join(<<",", " ">>, params) \o <<")">>
    ELSE <<symbol>>

\* symbol = self.current_char; self.advance(); params = self.read_params()
read_symbol(L) == read_params_enter([advance(L) EXCEPT !.symbol = L.current_char])

\* tokens.append("[") / tokens.append("]"), then advance
read_bracket(L) ==
    [advance(L) EXCEPT !.tokens = Append(L.tokens, <<L.current_char>>)]

\* else: self.advance()
skip_other_no_advance(L) == L

skip_other(L) == advance(L)

nonLexer == <<pick, lam, pipeline>>

\* `while self.current_char is not None` is false: return tokens
LexReturn ==
    /\ lexer.pc = "tokenize"
    /\ lexer.current_char = None
    /\ lexer' = [lexer EXCEPT !.pc = "done"]
    /\ UNCHANGED nonLexer

\* Only whitespace was left: break, return tokens
LexBreak ==
    /\ lexer.pc = "tokenize"
    /\ lexer.current_char # None
    /\ tokenize_branch(skip_whitespace(lexer).current_char) = "break"
    /\ lexer' = [skip_whitespace(lexer) EXCEPT !.pc = "done"]
    /\ UNCHANGED nonLexer

LexOpenBracket ==
    /\ lexer.pc = "tokenize"
    /\ lexer.current_char # None
    /\ tokenize_branch(skip_whitespace(lexer).current_char) = "["
    /\ lexer' = read_bracket(skip_whitespace(lexer))
    /\ UNCHANGED nonLexer

LexCloseBracket ==
    /\ lexer.pc = "tokenize"
    /\ lexer.current_char # None
    /\ tokenize_branch(skip_whitespace(lexer).current_char) = "]"
    /\ lexer' = read_bracket(skip_whitespace(lexer))
    /\ UNCHANGED nonLexer

LexPlus ==
    /\ lexer.pc = "tokenize"
    /\ lexer.current_char # None
    /\ tokenize_branch(skip_whitespace(lexer).current_char) = "+"
    /\ lexer' = read_symbol(skip_whitespace(lexer))
    /\ UNCHANGED nonLexer

LexMinus ==
    /\ lexer.pc = "tokenize"
    /\ lexer.current_char # None
    /\ tokenize_branch(skip_whitespace(lexer).current_char) = "-"
    /\ lexer' = read_symbol(skip_whitespace(lexer))
    /\ UNCHANGED nonLexer

LexSymbol ==
    /\ lexer.pc = "tokenize"
    /\ lexer.current_char # None
    /\ tokenize_branch(skip_whitespace(lexer).current_char) = "alnum"
    /\ lexer' = read_symbol(skip_whitespace(lexer))
    /\ UNCHANGED nonLexer

\* The else branch; the chain raises when it is handed None
LexOther ==
    /\ lexer.pc = "tokenize"
    /\ lexer.current_char # None
    /\ tokenize_branch(skip_whitespace(lexer).current_char) \in {"other", "raise"}
    /\ lexer' = IF tokenize_branch(skip_whitespace(lexer).current_char) = "raise"
                THEN [skip_whitespace(lexer) EXCEPT !.pc = "raised"]
                ELSE skip_other(skip_whitespace(lexer))
    /\ UNCHANGED nonLexer

\* One iteration of the loop of read_params
ReadParamsLoop ==
    /\ lexer.pc = "read_params"
    /\ lexer.current_char # None /\ lexer.paren_depth > 0
    /\ lexer' = read_params_step(lexer)
    /\ UNCHANGED nonLexer

\* The loop of read_params ends: return params
ReadParamsExit ==
    /\ lexer.pc = "read_params"
    /\ ~(lexer.current_char # None /\ lexer.paren_depth > 0)
    /\ lexer' = [lexer EXCEPT !.pc = "return_params"]
    /\ UNCHANGED nonLexer

\* Back in tokenize: append the token of the symbol and its params
LexAppendToken ==
    /\ lexer.pc = "return_params"
    /\ lexer' = [lexer EXCEPT
                    !.tokens = Append(lexer.tokens,
                                      render_token(lexer.symbol, lexer.params)),
                    !.pc = "tokenize"]
    /\ UNCHANGED nonLexer

LexerNext ==
    \/ LexReturn
    \/ LexBreak
    \/ LexOpenBracket
    \/ LexCloseBracket
    \/ LexPlus
    \/ LexMinus
    \/ LexSymbol
    \/ LexOther
    \/ ReadParamsLoop
    \/ ReadParamsExit
    \/ LexAppendToken

LexerInit ==
    /\ \E s \in LexInputs : lexer = LSystemLexer(s)
    /\ pick = NoPick
    /\ lam = NoLambda
    /\ NoPipeline

SpecLexer == LexerInit /\ [][LexerNext]_vars

\* The whole of tokenize as a function of the input text
RECURSIVE run_lexer(_)
run_lexer(L) ==
    IF L.pc \in {"done", "raised"} THEN L
    ELSE IF L.pc = "read_params"
    THEN IF L.current_char # None /\ L.paren_depth > 0
         THEN run_lexer(read_params_step(L))
         ELSE run_lexer([L EXCEPT !.pc = "return_params"])
    ELSE IF L.pc = "return_params"
    THEN run_lexer([L EXCEPT !.tokens = Append(L.tokens, render_token(L.symbol, L.params)),
                             !.pc = "tokenize"])
    ELSE IF L.current_char = None THEN [L EXCEPT !.pc = "done"]
    ELSE LET S == skip_whitespace(L)
             b == tokenize_branch(S.current_char)
         IN  IF b = "break" THEN [S EXCEPT !.pc = "done"]
             ELSE IF b = "raise" THEN [S EXCEPT !.pc = "raised"]
             ELSE IF b \in {"[", "]"} THEN run_lexer(read_bracket(S))
             ELSE IF b \in {"+", "-", "alnum"} THEN run_lexer(read_symbol(S))
             ELSE run_lexer(skip_other(S))

tokenize(sequence) == run_lexer(LSystemLexer(sequence)).tokens

SpecLexerFair == SpecLexer /\ WF_vars(LexerNext)

\* The longest prefix of s made of alphanumeric characters
RECURSIVE AlnumRun(_)
AlnumRun(s) ==
    IF s # <<>> /\ isalnum(Head(s)) THEN <<Head(s)>> \o AlnumRun(Tail(s)) ELSE <<>>

\* s is a symbol name of one or more alphanumeric characters, alone or
\* followed by one closed parameter list without inner parentheses
IsNamedSymbol(s) ==
    LET n == Len(AlnumRun(s))
    IN  /\ n >= 1
        /\ \/ n = Len(s)
           \/ /\ Len(s) >= n + 3
              /\ s[n + 1] = "("
              /\ s[Len(s)] = ")"
              /\ \A i \in n + 2 .. Len(s) - 1 : s[i] \in Digits \cup {","}
              /\ s[n + 2] \in Digits

\* C9: an alphanumeric run is read as one multi-character symbol, and the
\* parameter list that follows belongs to that whole symbol: a named symbol
\* yields exactly one token, whose name is the whole run, "FT(1,2)" yields
\* the single token FT with params 1 and 2, and "AB" the single token AB.
C9_MultiCharSymbol ==
    (lexer.pc = "done" /\ IsNamedSymbol(lexer.sequence)) =>
        /\ Len(lexer.tokens) = 1
        /\ AlnumRun(lexer.tokens[1]) = AlnumRun(lexer.sequence)
        /\ lexer.sequence = <<"A", "B">> => lexer.tokens = <<(<<"A", "B">>)>>
        /\ lexer.sequence = <<"F", "T", "(", "1", ",", "2", ")">> =>
               lexer.tokens = <<(<<"F", "T", "(", "1", ",", " ", "2", ")">>)>>

\* The symbol of an input that ends inside a parameter list: the character
\* before the first "(", when that character starts a token and no later
\* character closes the list
HasOpenList(s) ==
    \E i \in 2 .. Len(s) :
        /\ s[i] = "("
        /\ \A j \in 1 .. i - 1 : s[j] # "("
        /\ \A j \in i + 1 .. Len(s) : s[j] # ")"
        /\ (isalnum(s[i - 1]) \/ s[i - 1] \in {"+", "-"})

OpenListSymbol(s) ==
    s[(CHOOSE i \in 2 .. Len(s) : s[i] = "(" /\ \A j \in 1 .. i - 1 : s[j] # "(") - 1]

C10_Safe ==
    /\ lexer.pc # "raised"
    /\ lexer.pc = "done" \/ ENABLED LexerNext
    /\ lexer.pos <= Len(lexer.sequence)
    /\ lexer.pc = "done" =>
          /\ lexer.pos = Len(lexer.sequence)
          /\ lexer.paren_depth > 0 =>
                /\ lexer.tokens # <<>>
                /\ Head(lexer.tokens[Len(lexer.tokens)]) = lexer.symbol
          /\ HasOpenList(lexer.sequence) =>
                /\ lexer.paren_depth > 0
                /\ lexer.tokens # <<>>
                /\ Head(lexer.tokens[Len(lexer.tokens)]) = OpenListSymbol(lexer.sequence)

\* A step that runs the body of one of the two loops
C10_Consumes ==
    /\ lexer'.pos >= lexer.pos
    /\ (\/ lexer.pc = "tokenize" /\ lexer.current_char # None
        \/ lexer.pc = "read_params" /\ lexer.current_char # None
                                    /\ lexer.paren_depth > 0)
          => lexer'.pos > lexer.pos

\* C10: tokenize never raises and terminates on every input; every step of
\* its loops consumes at least one character; when the input ends inside a
\* parameter list the tokens read so far are returned, the last one being
\* the symbol whose list was left open.
C10_TokenizeTerminates ==
    /\ []C10_Safe
    /\ [][C10_Consumes]_vars
    /\ <>(lexer.pc = "done")

\* An input that ended inside a parameter list has been tokenized
C10_Witness ==
    /\ lexer.pc = "done"
    /\ lexer.paren_depth > 0
    /\ HasOpenList(lexer.sequence)
    /\ Len(lexer.tokens) >= 2

\* The rendered text of a token list: the texts of its tokens, concatenated
render(tokens) == join(<<>>, tokens)

\* A token of the lexer whose params are literal numbers: a bracket, or one
\* symbol character alone or followed by a list of digit runs separated by
\* a comma and a blank
IsLiteralToken(token) ==
    \/ token \in {<<"[">>, <<"]">>}
    \/ /\ isalnum(token[1]) \/ token[1] \in {"+", "-"}
       /\ \/ Len(token) = 1
          \/ /\ Len(token) >= 4
             /\ token[2] = "(" /\ token[Len(token)] = ")"
             /\ \A i \in 3 .. Len(token) - 1 : token[i] \in Digits \cup {",", " "}
             /\ token[3] \in Digits /\ token[Len(token) - 1] \in Digits
             /\ \A i \in 3 .. Len(token) - 2 :
                    /\ token[i] = "," => token[i + 1] = " "
                    /\ token[i] = " " => (token[i - 1] = "," /\ token[i + 1] \in Digits)

\* C11: tokenizing the rendered text of a token list the lexer returned
\* gives exactly that token list, tokenize(render(tokenize(s))) =
\* tokenize(s) for every input s; every token list of the lexer whose
\* params are literal numbers is returned unchanged.
C11_RoundTrip ==
    lexer.pc = "done" =>
        /\ tokenize(render(lexer.tokens)) = lexer.tokens
        /\ tokenize(render(tokenize(lexer.sequence))) = tokenize(lexer.sequence)
        /\ tokenize(lexer.sequence) = lexer.tokens

\* A token list with a two-number parameter list, whose rendered text is
\* not the input it was read from, has been returned
C11_Witness ==
    /\ lexer.pc = "done"
    /\ \A i \in 1 .. Len(lexer.tokens) : IsLiteralToken(lexer.tokens[i])
    /\ \E i \in 1 .. Len(lexer.tokens) : Len(lexer.tokens[i]) >= 7
    /\ render(lexer.tokens) # lexer.sequence
    /\ tokenize(render(lexer.tokens)) = lexer.tokens

(***************************************************************************)
(* SafeLambdaParser (utils/lambda_parser.py)                               *)
(*                                                                         *)
(* A number is [kind, milli]: an int or a float, its value in thousandths. *)
(* The arithmetic is exact; the templates and arguments of the model are   *)
(* chosen so that Python's floats give the same decimal strings.           *)
(***************************************************************************)
PyInt(n) == [kind |-> "int", milli |-> n * 1000]

PyFloat(m) == [kind |-> "float", milli |-> m]

IsNumber(v) == v.kind \in {"int", "float"}

Ok(v) == [ok |-> TRUE, error |-> "", value |-> v]

Err(e) == [ok |-> FALSE, error |-> e, value |-> PyInt(0)]

Abs(n) == IF n < 0 THEN -n ELSE n

\* int / float result kind of an arithmetic operation
NumKind(l, r) == IF l.kind = "float" \/ r.kind = "float" THEN "float" ELSE "int"

SAFE_BINARY_OPERATORS == {"Add", "Sub", "Mult", "Div", "Mod", "Pow"}

SAFE_UNARY_OPERATORS == {"USub", "UAdd"}

SAFE_FUNCTIONS ==
    {<<"a", "b", "s">>,
     <<"m", "i", "n">>,
     <<"m", "a", "x">>,
     <<"r", "o", "u", "n", "d">>,
     <<"i", "n", "t">>,
     <<"f", "l", "o", "a", "t">>,
     <<"r", "a", "n", "d", "o", "m">>,
     <<"u", "n", "i", "f", "o", "r", "m">>,
     <<"t", "r", "i", "a", "n", "g", "u", "l", "a", "r">>,
     <<"r", "a", "n", "d", "i", "n", "t">>,
     <<"g", "a", "u", "s", "s">>}

RECURSIVE IntPow(_, _)
IntPow(b, e) == IF e = 0 THEN 1 ELSE b * IntPow(b, e - 1)

\* SAFE_OPERATORS[op_type](left, right)
apply_binop(op, l, r) ==
    IF ~(IsNumber(l) /\ IsNumber(r)) THEN Err("TypeError")
    ELSE IF op = "Add" THEN Ok([kind |-> NumKind(l, r), milli |-> l.milli + r.milli])
    ELSE IF op = "Sub" THEN Ok([kind |-> NumKind(l, r), milli |-> l.milli - r.milli])
    ELSE IF op = "Mult"
    THEN Ok([kind |-> NumKind(l, r), milli |-> (l.milli * r.milli) \div 1000])
    ELSE IF op = "Div"
    THEN IF r.milli = 0 THEN Err("ZeroDivisionError")
         ELSE Ok([kind |-> "float", milli |-> (l.milli * 1000) \div r.milli])
    ELSE IF op = "Mod"
    THEN IF r.milli = 0 THEN Err("ZeroDivisionError")
         ELSE IF r.milli > 0
         THEN Ok([kind |-> NumKind(l, r), milli |-> l.milli % r.milli])
         ELSE Ok([kind |-> NumKind(l, r), milli |-> -((-l.milli) % (-r.milli))])
    ELSE IF l.kind = "int" /\ r.kind = "int" /\ r.milli >= 0
    THEN Ok(PyInt(IntPow(l.milli \div 1000, r.milli \div 1000)))
    ELSE Err("Unmodelled")

\* SAFE_OPERATORS[op_type](operand); the float -0.0 is not modelled
apply_unaryop(op, v) ==
    IF ~IsNumber(v) THEN Err("TypeError")
    ELSE IF op = "USub"
    THEN IF v.kind = "float" /\ v.milli = 0 THEN Err("Unmodelled")
         ELSE Ok([v EXCEPT !.milli = -v.milli])
    ELSE Ok(v)

\* max(*args) and min(*args): the first of the greatest (least) arguments
RECURSIVE py_max(_)
py_max(args) ==
    IF Len(args) = 1 THEN args[1]
    ELSE LET m == py_max(Slice(args, 1, Len(args) - 1))
         IN  IF args[Len(args)].milli > m.milli THEN args[Len(args)] ELSE m

RECURSIVE py_min(_)
py_min(args) ==
    IF Len(args) = 1 THEN args[1]
    ELSE LET m == py_min(Slice(args, 1, Len(args) - 1))
         IN  IF args[Len(args)].milli < m.milli THEN args[Len(args)] ELSE m

\* int(x): towards zero
py_int(v) ==
    IF v.milli >= 0 THEN PyInt(v.milli \div 1000) ELSE PyInt(-((-v.milli) \div 1000))

\* round(x): to the nearest integer, halves to the even one
py_round(v) ==
    LET q == v.milli \div 1000
        r == v.milli - q * 1000
    IN  IF r < 500 THEN PyInt(q)
        ELSE IF r > 500 THEN PyInt(q + 1)
        ELSE IF q % 2 = 0 THEN PyInt(q) ELSE PyInt(q + 1)

\* SAFE_FUNCTIONS[func_name](*args)
call_function(func_name, args) ==
    IF \E i \in 1 .. Len(args) : ~IsNumber(args[i]) THEN Err("TypeError")
    ELSE IF func_name = <<"a", "b", "s">>
    THEN IF Len(args) = 1 THEN Ok([args[1] EXCEPT !.milli = Abs(args[1].milli)])
         ELSE Err("TypeError")
    ELSE IF func_name = <<"m", "a", "x">>
    THEN IF Len(args) >= 2 THEN Ok(py_max(args)) ELSE Err("TypeError")
    ELSE IF func_name = <<"m", "i", "n">>
    THEN IF Len(args) >= 2 THEN Ok(py_min(args)) ELSE Err("TypeError")
    ELSE IF func_name = <<"i", "n", "t">>
    THEN IF Len(args) = 0 THEN Ok(PyInt(0))
         ELSE IF Len(args) = 1 THEN Ok(py_int(args[1]))
         ELSE Err("Unmodelled")
    ELSE IF func_name = <<"f", "l", "o", "a", "t">>
    THEN IF Len(args) = 0 THEN Ok(PyFloat(0))
         ELSE IF Len(args) = 1 THEN Ok(PyFloat(args[1].milli))
         ELSE Err("TypeError")
    ELSE IF func_name = <<"r", "o", "u", "n", "d">> /\ Len(args) = 1
    THEN Ok(py_round(args[1]))
    ELSE Err("Unmodelled")

\* SafeLambdaParser._get_func_name: both branches of the Attribute case
\* return node.attr, whatever the object of the attribute is
get_func_name(node) ==
    IF node.type = "Name" THEN Ok(node.id)
    ELSE IF node.type = "Attribute"
    THEN IF node.value.type = "Name" /\ node.value.id = <<"r", "a", "n", "d", "o", "m">>
         THEN Ok(node.attr)
         ELSE Ok(node.attr)
    ELSE Err("ValueError")

\* The first failed result of a sequence of results, or the values of all
AllOk(results) == \A i \in 1 .. Len(results) : results[i].ok

FirstError(results) ==
    results[CHOOSE i \in 1 .. Len(results) :
                ~results[i].ok /\ \A j \in 1 .. i - 1 : results[j].ok]

\* SafeLambdaParser._eval_node
RECURSIVE eval_node(_, _)
eval_node(node, bindings) ==
    IF node.type = "Constant" THEN Ok(node.value)
    ELSE IF node.type = "Name"
    THEN IF node.id \in DOMAIN bindings THEN Ok(bindings[node.id]) ELSE Err("NameError")
    ELSE IF node.type = "BinOp"
    THEN LET left == eval_node(node.left, bindings)
             right == eval_node(node.right, bindings)
         IN  IF ~left.ok THEN left
             ELSE IF ~right.ok THEN right
             ELSE IF node.op \in SAFE_BINARY_OPERATORS
             THEN apply_binop(node.op, left.value, right.value)
             ELSE Err("ValueError")
    ELSE IF node.type = "UnaryOp"
    THEN LET operand == eval_node(node.operand, bindings)
         IN  IF ~operand.ok THEN operand
             ELSE IF node.op \in SAFE_UNARY_OPERATORS
             THEN apply_unaryop(node.op, operand.value)
             ELSE Err("ValueError")
    ELSE IF node.type = "Call"
    THEN LET func_name == get_func_name(node.func)
             args == [i \in 1 .. Len(node.args) |-> eval_node(node.args[i], bindings)]
         IN  IF ~func_name.ok THEN Err("ValueError")
             ELSE IF func_name.value \notin SAFE_FUNCTIONS THEN Err("ValueError")
             ELSE IF ~AllOk(args) THEN FirstError(args)
             ELSE call_function(func_name.value,
                                [i \in 1 .. Len(args) |-> args[i].value])
    ELSE Err("ValueError")

\* str(value)
RECURSIVE nat_to_chars(_)
nat_to_chars(n) ==
    IF n < 10 THEN <<WordChars[n + 1]>>
    ELSE nat_to_chars(n \div 10) \o <<WordChars[(n % 10) + 1]>>

\* The digits after the point of a float with f thousandths, f in 0 .. 999
frac_chars(f) ==
    LET d == <<WordChars[(f \div 100) + 1], WordChars[((f \div 10) % 10) + 1],
               WordChars[(f % 10) + 1]>>
    IN  IF f % 10 # 0 THEN d
        ELSE IF f % 100 # 0 THEN SubSeq(d, 1, 2)
        ELSE SubSeq(d, 1, 1)

py_str_as_int(v) ==
    IF v.kind = "str" THEN v.text
    ELSE (IF v.milli < 0 THEN <<"-">> ELSE <<>>) \o nat_to_chars(Abs(v.milli) \div 1000)

py_str(v) ==
    IF v.kind = "str" THEN v.text
    ELSE IF v.kind = "int"
    THEN (IF v.milli < 0 THEN <<"-">> ELSE <<>>) \o nat_to_chars(Abs(v.milli) \div 1000)
    ELSE (IF v.milli < 0 THEN <<"-">> ELSE <<>>)
            \o nat_to_chars(Abs(v.milli) \div 1000)
            \o <<".">> \o frac_chars(Abs(v.milli) % 1000)

\* str.replace(cc, c) for a doubled character cc
RECURSIVE replace_double(_, _)
replace_double(s, c) ==
    IF s = <<>> THEN <<>>
    ELSE IF Len(s) >= 2 /\ s[1] = c /\ s[2] = c
    THEN <<c>> \o replace_double(Slice(s, 3, Len(s)), c)
    ELSE <<Head(s)>> \o replace_double(Tail(s), c)

\* The index of the first c in s after index k, or 0
FirstAfter(s, c, k) ==
    IF \E j \in k + 1 .. Len(s) : s[j] = c
    THEN CHOOSE j \in k + 1 .. Len(s) : s[j] = c /\ \A i \in k + 1 .. j - 1 : s[i] # c
    ELSE 0

\* r"\{([^}]+)\}" matches at index k of s
PlaceholderAt(s, k) == s[k] = "{" /\ FirstAfter(s, "}", k) >= k + 2

\* The index of the leftmost match of r"\{([^}]+)\}" in s, or 0
FirstPlaceholder(s) ==
    IF \E k \in 1 .. Len(s) : PlaceholderAt(s, k)
    THEN CHOOSE k \in 1 .. Len(s) :
            PlaceholderAt(s, k) /\ \A i \in 1 .. k - 1 : ~PlaceholderAt(s, i)
    ELSE 0

\* re.findall(r"\{([^}]+)\}", template)
RECURSIVE find_expressions(_)
find_expressions(s) ==
    LET k == FirstPlaceholder(s)
        j == FirstAfter(s, "}", k)
    IN  IF k = 0 THEN <<>>
        ELSE <<SubSeq(s, k + 1, j - 1)>> \o find_expressions(Slice(s, j + 1, Len(s)))

IsWordChar(c) == \E i \in 1 .. Len(WordChars) : WordChars[i] = c

\* The last index of the run of word characters of e that starts at k
RECURSIVE RunEnd(_, _)
RunEnd(e, k) == IF k < Len(e) /\ IsWordChar(e[k + 1]) THEN RunEnd(e, k + 1) ELSE k

\* re.findall(r"\b[a-zA-Z_][a-zA-Z0-9_]*\b", expr), from index k on: the
\* runs of word characters that begin with a letter or an underscore
RECURSIVE find_identifiers(_, _)
find_identifiers(e, k) ==
    IF k > Len(e) THEN <<>>
    ELSE IF ~IsWordChar(e[k]) THEN find_identifiers(e, k + 1)
    ELSE (IF e[k] \in Letters \cup {"_"} THEN <<SubSeq(e, k, RunEnd(e, k))>> ELSE <<>>)
            \o find_identifiers(e, RunEnd(e, k) + 1)

\* Python's order of two strings of word characters
RECURSIVE StrLess(_, _)
StrLess(a, b) ==
    IF b = <<>> THEN FALSE
    ELSE IF a = <<>> THEN TRUE
    ELSE IF Head(a) # Head(b) THEN Ord(Head(a)) < Ord(Head(b))
    ELSE StrLess(Tail(a), Tail(b))

\* sorted(a set of strings)
RECURSIVE sorted(_)
sorted(S) ==
    IF S = {} THEN <<>>
    ELSE LET m == CHOOSE x \in S : \A y \in S \ {x} : StrLess(x, y)
         IN  <<m>> \o sorted(S \ {m})

\* The elements of a sequence in order of first appearance
RECURSIVE first_appearance(_)
first_appearance(q) ==
    IF q = <<>> THEN <<>>
    ELSE LET init == first_appearance(Slice(q, 1, Len(q) - 1))
             last == q[Len(q)]
         IN  IF \E i \in 1 .. Len(init) : init[i] = last THEN init ELSE Append(init, last)

\* The identifiers of all the placeholders, in order of appearance, without
\* the names of SAFE_FUNCTIONS and "random"
RECURSIVE param_tokens(_)
param_tokens(expressions) ==
    IF expressions = <<>> THEN <<>>
    ELSE SelectSeq(find_identifiers(Head(expressions), 1),
                   LAMBDA token : /\ token \notin SAFE_FUNCTIONS
                                  /\ token \notin {<<"r", "a", "n", "d", "o", "m">>})
            \o param_tokens(Tail(expressions))

extract_params_unsorted(template) ==
    first_appearance(param_tokens(find_expressions(template)))

\* SafeLambdaParser._extract_params
extract_params(template) ==
    LET tokens == param_tokens(find_expressions(template))
    IN  sorted({tokens[i] : i \in 1 .. Len(tokens)})

\* ast.parse(expr, mode="eval").body for the expressions of the model's
\* templates; "x +" is no expression
ParseTable ==
    {<<<<"x", "*", "0", ".", "9">>,
       [type |-> "BinOp", left |-> [type |-> "Name", id |-> <<"x">>], op |-> "Mult", right |-> [type |-> "Constant", value |-> [kind |-> "float", milli |-> 900]]]>>,
     <<<<"y", "*", "0", ".", "8">>,
       [type |-> "BinOp", left |-> [type |-> "Name", id |-> <<"y">>], op |-> "Mult", right |-> [type |-> "Constant", value |-> [kind |-> "float", milli |-> 800]]]>>,
     <<<<"x", "*", "0", ".", "8">>,
       [type |-> "BinOp", left |-> [type |-> "Name", id |-> <<"x">>], op |-> "Mult", right |-> [type |-> "Constant", value |-> [kind |-> "float", milli |-> 800]]]>>,
     <<<<"y", "*", "0", ".", "6">>,
       [type |-> "BinOp", left |-> [type |-> "Name", id |-> <<"y">>], op |-> "Mult", right |-> [type |-> "Constant", value |-> [kind |-> "float", milli |-> 600]]]>>,
     <<<<"x", "*", "0", ".", "6">>,
       [type |-> "BinOp", left |-> [type |-> "Name", id |-> <<"x">>], op |-> "Mult", right |-> [type |-> "Constant", value |-> [kind |-> "float", milli |-> 600]]]>>,
     <<<<"m", "a", "x", "(", "x", ",", " ", "y", ")">>,
       [type |-> "Call", func |-> [type |-> "Name", id |-> <<"m", "a", "x">>], args |-> <<[type |-> "Name", id |-> <<"x">>], [type |-> "Name", id |-> <<"y">>]>>]>>,
     <<<<"a">>,
       [type |-> "Name", id |-> <<"a">>]>>,
     <<<<"b">>,
       [type |-> "Name", id |-> <<"b">>]>>,
     <<<<"x">>,
       [type |-> "Name", id |-> <<"x">>]>>,
     <<<<"f", "o", "o", ".", "m", "a", "x", "(", "1", ",", " ", "2", ")">>,
       [type |-> "Call", func |-> [type |-> "Attribute", value |-> [type |-> "Name", id |-> <<"f", "o", "o">>], attr |-> <<"m", "a", "x">>], args |-> <<[type |-> "Constant", value |-> [kind |-> "int", milli |-> 1000]], [type |-> "Constant", value |-> [kind |-> "int", milli |-> 2000]]>>]>>,
     <<<<"o", "s", ".", "a", "b", "s", "(", "x", ")">>,
       [type |-> "Call", func |-> [type |-> "Attribute", value |-> [type |-> "Name", id |-> <<"o", "s">>], attr |-> <<"a", "b", "s">>], args |-> <<[type |-> "Name", id |-> <<"x">>]>>]>>,
     <<<<"f", "o", "o", "(", "x", ")">>,
       [type |-> "Call", func |-> [type |-> "Name", id |-> <<"f", "o", "o">>], args |-> <<[type |-> "Name", id |-> <<"x">>]>>]>>,
     <<<<"x", ".", "y">>,
       [type |-> "Attribute", value |-> [type |-> "Name", id |-> <<"x">>], attr |-> <<"y">>]>>,
     <<<<"x", "/", "/", "2">>,
       [type |-> "BinOp", left |-> [type |-> "Name", id |-> <<"x">>], op |-> "FloorDiv", right |-> [type |-> "Constant", value |-> [kind |-> "int", milli |-> 2000]]]>>,
     <<<<"[", "x", "]">>,
       [type |-> "List"]>>,
     <<<<"'", "'">>,
       [type |-> "Constant", value |-> [kind |-> "str", text |-> <<>>]]>>,
     <<<<"x", "-", "1">>,
       [type |-> "BinOp", left |-> [type |-> "Name", id |-> <<"x">>], op |-> "Sub", right |-> [type |-> "Constant", value |-> [kind |-> "int", milli |-> 1000]]]>>,
     <<<<"x", "/", "0">>,
       [type |-> "BinOp", left |-> [type |-> "Name", id |-> <<"x">>], op |-> "Div", right |-> [type |-> "Constant", value |-> [kind |-> "int", milli |-> 0]]]>>,
     <<<<"x", " ", "+">>,
       [type |-> "SyntaxError"]>>,
     <<<<"m", "a", "x">>,
       [type |-> "Name", id |-> <<"m", "a", "x">>]>>}

ast_parse(expr) ==
    IF \E e \in ParseTable : e[1] = expr
    THEN (CHOOSE e \in ParseTable : e[1] = expr)[2]
    ELSE [type |-> "Unmodelled"]

\* SafeLambdaParser._eval_expr: a SyntaxError becomes a ValueError
eval_expr(expr, bindings) ==
    LET body == ast_parse(expr)
    IN  IF body.type = "SyntaxError" THEN Err("ValueError")
        ELSE IF body.type = "Unmodelled" THEN Err("Unmodelled")
        ELSE eval_node(body, bindings)

Returned(text) == [raised |-> FALSE, error |-> "", value |-> text]

Raised(e) == [raised |-> TRUE, error |-> e, value |-> <<>>]

\* replace_expr of dynamic_lambda: str(result), or ValueError
replace_expr(expr, bindings) ==
    LET result == eval_expr(expr, bindings)
    IN  IF result.ok THEN Returned(py_str(result.value))
        ELSE IF result.error = "Unmodelled" THEN Raised("Unmodelled")
        ELSE Raised("ValueError")

\* re.sub(r"\{([^}]+)\}", replace_expr, template)
RECURSIVE sub_placeholders(_, _)
sub_placeholders(s, bindings) ==
    LET k == FirstPlaceholder(s)
        j == FirstAfter(s, "}", k)
        r == replace_expr(SubSeq(s, k + 1, j - 1), bindings)
        rest == sub_placeholders(Slice(s, j + 1, Len(s)), bindings)
    IN  IF k = 0 THEN Returned(s)
        ELSE IF r.raised THEN r
        ELSE IF rest.raised THEN rest
        ELSE Returned(Slice(s, 1, k - 1) \o r.value \o rest.value)

\* A literal replacement string, in the shape of a callable
Literal(text) ==
    [kind |-> "str", template |-> text, param_names |-> <<>>, expected_arg_count |-> 0]

\* SafeLambdaParser.parse_lambda_string: the closure dynamic_lambda
parse_lambda_string(lambda_str) ==
    LET template == replace_double(replace_double(lambda_str, "{"), "}")
        param_names == extract_params(template)
    IN  [kind |-> "dynamic_lambda",
         template |-> template,
         param_names |-> param_names,
         expected_arg_count |-> Len(param_names)]

\* dict(zip(param_names, args))
zip_bindings(param_names, args) ==
    [n \in {param_names[i] : i \in 1 .. Len(param_names)} |->
        args[CHOOSE i \in 1 .. Len(param_names) : param_names[i] = n]]

\* dynamic_lambda(*args)
dynamic_lambda(f, args) ==
    IF Len(args) < f.expected_arg_count THEN Returned(<<>>)
    ELSE sub_placeholders(f.template, zip_bindings(f.param_names, args))

(***************************************************************************)
(* LSystemMixin (l_system/system_base.py)                                  *)
(*                                                                         *)
(* A regex of _make_regex is the record [literal, lookbehind, group]: the  *)
(* escaped symbol, whether the negative lookbehind for a digit or a point  *)
(* guards it, and whether the optional parenthesized group follows it.     *)
(* The random module is the record [stream, next]: a cyclic stream of      *)
(* draws and the index of the next one.                                    *)
(***************************************************************************)
\* key.split("(")[0]
RECURSIVE before_paren(_)
before_paren(key) ==
    IF key = <<>> \/ Head(key) = "(" THEN <<>>
    ELSE <<Head(key)>> \o before_paren(Tail(key))

\* LSystemMixin._base_symbol
base_symbol(key) == before_paren(key)

\* LSystemMixin._make_regex
make_regex(key) ==
    IF \A i \in 1 .. Len(key) : key[i] # "("
    THEN IF key \in {<<"+">>, <<"-">>}
         THEN [literal |-> key, lookbehind |-> TRUE, group |-> TRUE]
         ELSE [literal |-> key, lookbehind |-> FALSE, group |-> FALSE]
    ELSE [literal |-> before_paren(key),
          lookbehind |-> before_paren(key) \in {<<"+">>, <<"-">>},
          group |-> TRUE]

\* random.random(): the draw, in thousandths, and the module's next state
random_random(rng) ==
    [value |-> rng.stream[rng.next],
     rng |-> [rng EXCEPT !.next = (rng.next % Len(rng.stream)) + 1]]

\* text.split(",")
RECURSIVE split_commas(_)
split_commas(text) ==
    LET k == FirstAfter(text, ",", 0)
    IN  IF k = 0 THEN <<text>>
        ELSE <<Slice(text, 1, k - 1)>> \o split_commas(Slice(text, k + 1, Len(text)))

AllDigits(s) == \A i \in 1 .. Len(s) : s[i] \in Digits

\* The value of a string of digits
RECURSIVE digits_value(_)
digits_value(s) ==
    IF s = <<>> THEN 0
    ELSE digits_value(Slice(s, 1, Len(s) - 1)) * 10 + (Ord(s[Len(s)]) - 1)

\* The thousandths of the digits after a point (the first three count)
frac_value(s) ==
    digits_value(SubSeq(s \o <<"0", "0", "0">>, 1, 3))

\* A decimal numeral, optionally signed: [ok, milli].  leading_zeros tells
\* whether an integer numeral may start with 0 (float() allows it, a Python
\* literal does not).
parse_numeral(text, leading_zeros) ==
    LET signed == text # <<>> /\ Head(text) \in {"-", "+"}
        body == IF signed THEN Tail(text) ELSE text
        dot == FirstAfter(body, ".", 0)
        whole == IF dot = 0 THEN body ELSE Slice(body, 1, dot - 1)
        frac == IF dot = 0 THEN <<>> ELSE Slice(body, dot + 1, Len(body))
        valid == /\ AllDigits(whole) /\ AllDigits(frac)
                 /\ whole # <<>> \/ frac # <<>>
                 /\ \/ leading_zeros
                    \/ dot # 0
                    \/ Len(whole) = 1
                    \/ Head(whole) # "0"
                    \/ \A i \in 1 .. Len(whole) : whole[i] = "0"
        magnitude == digits_value(whole) * 1000 + frac_value(frac)
    IN  IF ~valid THEN [ok |-> FALSE, milli |-> 0]
        ELSE [ok |-> TRUE,
              milli |-> IF signed /\ Head(text) = "-" THEN -magnitude ELSE magnitude]

\* LSystemMixin._safe_eval_number, for texts that are numerals or that
\* neither ast.literal_eval nor eval can evaluate (names, empty text)
safe_eval_number(expr) ==
    IF strip(expr) = <<>> THEN PyFloat(0)
    ELSE PyFloat(parse_numeral(strip(expr), FALSE).milli)

\* len(inspect.signature(replacement).parameters) of a replacement that is
\* the closure `def dynamic_lambda(*args)`: its one parameter is *args
signature_parameters(replacement) == Len(<<"args">>)

\* [1.0] * n
RECURSIVE ones(_)
ones(n) == IF n <= 0 THEN <<>> ELSE <<PyFloat(1000)>> \o ones(n - 1)

\* The args of _apply_rule for the text of match.group(1)
rule_args(replacement, match) ==
    LET pieces == IF match.group1 /\ match.text # <<>>
                  THEN split_commas(match.text)
                  ELSE <<>>
        args == [i \in 1 .. Len(pieces) |-> safe_eval_number(pieces[i])]
        n_expected == signature_parameters(replacement)
    IN  IF Len(args) < n_expected THEN args \o ones(n_expected - Len(args)) ELSE args

\* LSystemMixin._apply_rule: the args passed to the callable, what the call
\* returned or raised, and the random module afterwards.  pattern is the
\* regex the match was made with: match.group(1) raises IndexError when the
\* regex has no group.
apply_rule(pattern, rules, match, rng) ==
    LET draw == random_random(rng)
        drawn == Len(rules) # 1
        replacement == pick_rule(rules, draw.value).replacement
        after == IF drawn THEN draw.rng ELSE rng
    IN  IF replacement.kind = "str"
        THEN [args |-> <<>>, result |-> Returned(replacement.template), rng |-> after]
        ELSE IF ~pattern.group
        THEN [args |-> <<>>, result |-> Raised("IndexError"), rng |-> after]
        ELSE [args |-> rule_args(replacement, match),
              result |-> dynamic_lambda(replacement, rule_args(replacement, match)),
              rng |-> after]

\* The match of a regex of _make_regex at index i of text: [found, last,
\* group1, text], last the index of its last character
match_at(pattern, text, i) ==
    LET n == Len(pattern.literal)
        open == i + n
        close == FirstAfter(text, ")", open)
        literal == /\ n >= 1
                   /\ i + n - 1 <= Len(text)
                   /\ SubSeq(text, i, i + n - 1) = pattern.literal
                   /\ ~(pattern.lookbehind /\ i > 1 /\ text[i - 1] \in Digits \cup {"."})
        grouped == /\ pattern.group
                   /\ open <= Len(text)
                   /\ text[open] = "("
                   /\ close # 0
    IN  IF ~literal THEN [found |-> FALSE, last |-> 0, group1 |-> FALSE, text |-> <<>>]
        ELSE IF grouped
        THEN [found |-> TRUE, last |-> close, group1 |-> TRUE,
              text |-> Slice(text, open + 1, close - 1)]
        ELSE [found |-> TRUE, last |-> open - 1, group1 |-> FALSE, text |-> <<>>]

\* The index of the leftmost match of the regex at or after index i of text,
\* or 0
next_match(pattern, text, i) ==
    IF \E j \in i .. Len(text) : match_at(pattern, text, j).found
    THEN CHOOSE j \in i .. Len(text) :
            /\ match_at(pattern, text, j).found
            /\ \A h \in i .. j - 1 : ~match_at(pattern, text, h).found
    ELSE 0

\* self.rules.setdefault(base, []).append((replacement, pattern, prob))
add_rule(table, rule) ==
    LET base == base_symbol(rule.key)
        entry == [replacement |-> rule.replacement, pattern |-> make_regex(rule.key),
                  prob |-> rule.prob]
    IN  IF \E k \in 1 .. Len(table) : table[k].base = base
        THEN [k \in 1 .. Len(table) |->
                IF table[k].base = base
                THEN [table[k] EXCEPT !.rules = Append(table[k].rules, entry)]
                ELSE table[k]]
        ELSE Append(table, [base |-> base, rules |-> <<entry>>])

\* LSystemMixin.add_rules
RECURSIVE add_rules(_, _)
add_rules(table, rules) ==
    IF rules = <<>> THEN table
    ELSE add_rules(add_rule(table, Head(rules)), Tail(rules))

(***************************************************************************)
(* The calls of _pick_rule                                                 *)
(***************************************************************************)
PickProbs == {300, 500, 1000}

PickDraws == 0 .. 999

PickRuleLists ==
    {[i \in DOMAIN f |->
        [replacement |-> Literal(<<"F">>), pattern |-> make_regex(<<"A">>), prob |-> f[i]]] :
        f \in UNION {[1 .. n -> PickProbs] : n \in 1 .. MaxRules}}

PickInit ==
    /\ lexer = NoLexer
    /\ lam = NoLambda
    /\ NoPipeline
    /\ \E rules \in PickRuleLists :
            pick = [pc |-> "call", rules |-> rules, p |-> 0, picked |-> 0]

\* self._pick_rule(rules), random.random() returning p
PickRule ==
    /\ pick.pc = "call"
    /\ \E p \in PickDraws :
            pick' = [pick EXCEPT !.pc = "returned",
                                 !.p = p,
                                 !.picked = pick_index(pick.rules, p)]
    /\ UNCHANGED <<lexer, lam, pipeline>>

PickNext == PickRule

SpecPick == PickInit /\ [][PickNext]_vars

\* The sum of the probabilities of the first i rules
RECURSIVE CumulativeSum(_, _)
CumulativeSum(rules, i) ==
    IF i = 0 THEN 0 ELSE CumulativeSum(rules, i - 1) + rules[i].prob

\* C2: with one rule that rule is picked whatever its probability; otherwise
\* the first rule whose cumulative probability sum is >= p is picked, and the
\* last rule when no cumulative sum reaches p; probabilities 0.3 and 0.3 with
\* p = 0.9 pick the second rule.
C2_PickRule ==
    pick.pc = "returned" =>
        LET n == Len(pick.rules)
            reached == {i \in 1 .. n : CumulativeSum(pick.rules, i) >= pick.p}
        IN  /\ n = 1 => pick.picked = 1
            /\ (n > 1 /\ reached # {}) =>
                    /\ pick.picked \in reached
                    /\ \A i \in reached : pick.picked <= i
            /\ (n > 1 /\ reached = {}) => pick.picked = n
            /\ (n = 2 /\ pick.rules[1].prob = 300 /\ pick.rules[2].prob = 300
                      /\ pick.p = 900) => pick.picked = 2

\* The draw 0.9 fell in the gap above 0.3 + 0.3 and the last rule was picked
C2_Witness ==
    /\ pick.pc = "returned"
    /\ Len(pick.rules) = 2
    /\ pick.rules[1].prob = 300 /\ pick.rules[2].prob = 300
    /\ pick.p = 900
    /\ pick.picked = 2

(***************************************************************************)
(* Compiling a template, calling the callable, applying a parametric rule  *)
(***************************************************************************)
T_FT == <<"F", "T", "(", "{", "x", "*", "0", ".", "9", "}", ",", "{", "y", "*", "0", ".", "8", "}", ")">>

T_Max == <<"F", "(", "{", "m", "a", "x", "(", "x", ",", " ", "y", ")", "}", ")">>

T_FB == <<"F", "B", "(", "{", "x", "*", "0", ".", "8", "}", ",", "{", "y", "*", "0", ".", "6", "}", ")", "[", "+", "(", "1", "5", ")", "F", "L", "(", "{", "x", "*", "0", ".", "6", "}", ",", "{", "y", "*", "0", ".", "6", "}", ")", "]">>

T_ba == <<"{", "b", "}", "{", "a", "}">>

T_FooMax == <<"{", "f", "o", "o", ".", "m", "a", "x", "(", "1", ",", " ", "2", ")", "}">>

T_OsAbs == <<"{", "o", "s", ".", "a", "b", "s", "(", "x", ")", "}">>

T_Foo == <<"F", "(", "{", "f", "o", "o", "(", "x", ")", "}", ")">>

T_Attr == <<"{", "x", ".", "y", "}">>

T_FloorDiv == <<"{", "x", "/", "/", "2", "}">>

T_List == <<"{", "[", "x", "]", "}">>

T_EmptyStr == <<"{", "'", "'", "}">>

T_Plain == <<"F">>

T_Empty == <<>>

T_Double == <<"+", "(", "{", "{", "x", "}", "}", ")">>

T_DivZero == <<"F", "(", "{", "x", "/", "0", "}", ")">>

T_Braces == <<"F", "{", "}">>

T_Sub == <<"F", "(", "{", "x", "-", "1", "}", ")">>

T_Syntax == <<"{", "x", " ", "+", "}">>

T_FuncName == <<"{", "m", "a", "x", "}">>

T_Fx == <<"F", "(", "{", "x", "}", ")">>

Templates ==
    {T_FT, T_Max, T_FB, T_ba, T_FooMax, T_OsAbs, T_Foo, T_Attr, T_FloorDiv, T_List, T_EmptyStr, T_Plain, T_Empty, T_Double, T_DivZero, T_Braces, T_Sub, T_Syntax, T_FuncName, T_Fx}


MaxArgs == 2

ArgValues == {PyInt(1), PyInt(2), PyInt(5), PyInt(8), PyInt(10), PyFloat(1000)}

ArgLists == SeqsUpTo(ArgValues, MaxArgs)

\* The values of match.group(1): no parameter list, an empty one, and lists
MatchTexts ==
    {[group1 |-> FALSE, text |-> <<>>],
     [group1 |-> TRUE, text |-> <<>>],
     [group1 |-> TRUE, text |-> <<"1">>],
     [group1 |-> TRUE, text |-> <<"2">>],
     [group1 |-> TRUE, text |-> <<"x">>],
     [group1 |-> TRUE, text |-> <<"1", ",", "2">>],
     [group1 |-> TRUE, text |-> <<"1", ",", " ", "2">>],
     [group1 |-> TRUE, text |-> <<"5", ",">>],
     [group1 |-> TRUE, text |-> <<"1", ",", "2", ",", "5">>]}

LambdaInit ==
    /\ lexer = NoLexer
    /\ pick = NoPick
    /\ lam = [NoLambda EXCEPT !.pc = "new"]
    /\ NoPipeline

\* Loader.parse_rule of a parametric rule: parse_lambda_string(replacement)
ParseLambdaString ==
    /\ lam.pc = "new"
    /\ \E lambda_str \in Templates :
            lam' = [lam EXCEPT !.pc = "compiled",
                               !.lambda_str = lambda_str,
                               !.callable = parse_lambda_string(lambda_str)]
    /\ UNCHANGED <<lexer, pick, pipeline>>

\* A call of the callable; the call (3, 7) of the max template is the one
\* of test_lambda_parser
CallLambda ==
    /\ lam.pc = "compiled"
    /\ \E args \in ArgLists \cup (IF lam.lambda_str = T_Max
                                  THEN {<<PyInt(3), PyInt(7)>>}
                                  ELSE {}) :
            lam' = [lam EXCEPT !.pc = "called",
                               !.args = args,
                               !.result = dynamic_lambda(lam.callable, args)]
    /\ UNCHANGED <<lexer, pick, pipeline>>

\* _apply_rule of the one rule whose replacement is the callable, for a
\* match of the regex of a key with parameters
ApplyRule ==
    /\ lam.pc = "compiled"
    /\ \E match \in MatchTexts :
            LET rules == <<[replacement |-> lam.callable,
                            pattern |-> make_regex(<<"F", "(", "x", ")">>),
                            prob |-> 1000]>>
                applied == apply_rule(rules[1].pattern, rules, match,
                                      [stream |-> <<0>>, next |-> 1])
            IN  lam' = [lam EXCEPT !.pc = "applied",
                                   !.match = match,
                                   !.args = applied.args,
                                   !.result = applied.result]
    /\ UNCHANGED <<lexer, pick, pipeline>>

LambdaNext == ParseLambdaString \/ CallLambda \/ ApplyRule

SpecLambda == LambdaInit /\ [][LambdaNext]_vars

\* The model evaluates every expression of its templates itself
LambdaModelled == lam.result.error # "Unmodelled"

\* The values of the parameters the matched token carries
TokenParams(match) ==
    LET pieces == IF match.group1 /\ match.text # <<>>
                  THEN split_commas(match.text)
                  ELSE <<>>
    IN  [i \in 1 .. Len(pieces) |-> safe_eval_number(pieces[i])]

\* C3: a parametric rule's callable is invoked with the token's params
\* followed by 1.0 for every missing trailing argument, up to the number of
\* parameter names of its template, and extra params are never truncated; a
\* token without params and a two-parameter template give (1.0, 1.0).
C3_PadsToArity ==
    lam.pc = "applied" =>
        lam.args = TokenParams(lam.match)
                      \o ones(lam.callable.expected_arg_count - Len(TokenParams(lam.match)))

\* An expression node outside the whitelist: an attribute whose object is
\* not the name random, a call of a function that is not whitelisted, an
\* operator that is not whitelisted, any other node type
RECURSIVE NonWhitelisted(_)
NonWhitelisted(node) ==
    IF node.type \in {"Constant", "Name"} THEN FALSE
    ELSE IF node.type = "BinOp"
    THEN \/ node.op \notin SAFE_BINARY_OPERATORS
         \/ NonWhitelisted(node.left)
         \/ NonWhitelisted(node.right)
    ELSE IF node.type = "UnaryOp"
    THEN node.op \notin SAFE_UNARY_OPERATORS \/ NonWhitelisted(node.operand)
    ELSE IF node.type = "Call"
    THEN \/ node.func.type \notin {"Name", "Attribute"}
         \/ node.func.type = "Name" /\ node.func.id \notin SAFE_FUNCTIONS
         \/ node.func.type = "Attribute"
              /\ ~(/\ node.func.value.type = "Name"
                   /\ node.func.value.id = <<"r", "a", "n", "d", "o", "m">>
                   /\ node.func.attr \in SAFE_FUNCTIONS)
         \/ \E i \in 1 .. Len(node.args) : NonWhitelisted(node.args[i])
    ELSE TRUE

\* Some placeholder of the compiled template holds a non-whitelisted node
HasNonWhitelisted(template) ==
    \E i \in 1 .. Len(find_expressions(template)) :
        LET body == ast_parse(find_expressions(template)[i])
        IN  body.type # "SyntaxError" /\ NonWhitelisted(body)

\* C4: evaluating a placeholder that contains a non-whitelisted construct
\* always ends in an error and never yields a value; foo.max(1, 2) and
\* os.abs(x) are rejected.
C4_FailsClosed ==
    (/\ lam.pc = "called"
     /\ Len(lam.args) >= lam.callable.expected_arg_count
     /\ HasNonWhitelisted(lam.callable.template)) => lam.result.raised

\* The sequence is strictly increasing in Python's string order
StrictlySorted(names) ==
    \A i \in 1 .. Len(names) - 1 : StrLess(names[i], names[i + 1])

\* The identifiers of the placeholders of a template
PlaceholderIdentifiers(template) ==
    UNION {{find_identifiers(find_expressions(template)[i], 1)[j] :
                j \in 1 .. Len(find_identifiers(find_expressions(template)[i], 1))} :
            i \in 1 .. Len(find_expressions(template))}

\* C5: the parameter names are the identifiers of the placeholders minus the
\* whitelisted function names, sorted lexically, and the positional
\* arguments are bound to them in that order: "{b}{a}" called with (1, 2)
\* gives "21", and with any two arguments the second one then the first.
C5_SortedBinding ==
    /\ lam.pc # "new" =>
          /\ StrictlySorted(lam.callable.param_names)
          /\ {lam.callable.param_names[i] : i \in 1 .. Len(lam.callable.param_names)}
                = PlaceholderIdentifiers(lam.callable.template)
                    \ (SAFE_FUNCTIONS \cup {<<"r", "a", "n", "d", "o", "m">>})
    /\ (lam.pc = "called" /\ lam.lambda_str = T_ba /\ Len(lam.args) = 2) =>
          /\ ~lam.result.raised
          /\ lam.result.value = py_str(lam.args[2]) \o py_str(lam.args[1])
          /\ lam.args = <<PyInt(1), PyInt(2)>> => lam.result.value = <<"2", "1">>

\* "{b}{a}" has been called with (1, 2)
C5_Witness ==
    /\ lam.pc = "called"
    /\ lam.lambda_str = T_ba
    /\ lam.args = <<PyInt(1), PyInt(2)>>
    /\ lam.result.value = <<"2", "1">>

\* C6: called with fewer arguments than parameter names the callable returns
\* the empty string and raises nothing; with at least that many it never
\* returns the empty string for a non-empty template.
C6_EmptyOnlyWhenShort ==
    lam.pc = "called" =>
        /\ Len(lam.args) < lam.callable.expected_arg_count =>
              (~lam.result.raised /\ lam.result.value = <<>>)
        /\ (/\ Len(lam.args) >= lam.callable.expected_arg_count
            /\ lam.lambda_str # <<>>
            /\ ~lam.result.raised) => lam.result.value # <<>>

\* The texts of a template outside its placeholders, in order: one more
\* than it has placeholders
RECURSIVE outside_texts(_)
outside_texts(s) ==
    LET k == FirstPlaceholder(s)
        j == FirstAfter(s, "}", k)
    IN  IF k = 0 THEN <<s>>
        ELSE <<Slice(s, 1, k - 1)>> \o outside_texts(Slice(s, j + 1, Len(s)))

\* outside[1] values[1] outside[2] ... values[n] outside[n + 1]
RECURSIVE interleave(_, _)
interleave(outside, values) ==
    IF values = <<>> THEN Head(outside)
    ELSE Head(outside) \o Head(values) \o interleave(Tail(outside), Tail(values))

\* C7: the string returned is the template with every placeholder replaced
\* by the decimal string of the value of its expression under the bound
\* arguments, every character outside the placeholders unchanged; the three
\* calls of test_lambda_parser return "FT(9.0,4.0)", "F(7)" and a string
\* that starts with "FB(8.0,4.8)".
C7_Substitution ==
    (lam.pc = "called" /\ Len(lam.args) >= lam.callable.expected_arg_count
                       /\ ~lam.result.raised) =>
        LET template == lam.callable.template
            exprs == find_expressions(template)
            bindings == zip_bindings(lam.callable.param_names, lam.args)
            values == [i \in 1 .. Len(exprs) |->
                          py_str(eval_expr(exprs[i], bindings).value)]
        IN  /\ \A i \in 1 .. Len(exprs) : eval_expr(exprs[i], bindings).ok
            /\ lam.result.value = interleave(outside_texts(template), values)
            /\ (lam.lambda_str = T_FT /\ lam.args = <<PyInt(10), PyInt(5)>>) =>
                  lam.result.value = <<"F", "T", "(", "9", ".", "0", ",", "4", ".", "0", ")">>
            /\ (lam.lambda_str = T_Max /\ lam.args = <<PyInt(3), PyInt(7)>>) =>
                  lam.result.value = <<"F", "(", "7", ")">>
            /\ (lam.lambda_str = T_FB /\ lam.args = <<PyInt(10), PyInt(8)>>) =>
                  SubSeq(lam.result.value, 1, 11) = <<"F", "B", "(", "8", ".", "0", ",", "4", ".", "8", ")">>

\* "FT({x*0.9},{y*0.8})" has been called with (10, 5)
C7_Witness ==
    /\ lam.pc = "called"
    /\ lam.lambda_str = T_FT
    /\ lam.args = <<PyInt(10), PyInt(5)>>
    /\ lam.result.value = <<"F", "T", "(", "9", ".", "0", ",", "4", ".", "0", ")">>

(***************************************************************************)
(* utils/fractal_regex.py                                                  *)
(***************************************************************************)
\* float(p) for a stripped text: a decimal numeral or ValueError
py_float(text) == parse_numeral(text, TRUE)

\* The floats of the non-empty pieces of a parameter text
RECURSIVE param_floats(_)
param_floats(pieces) ==
    IF pieces = <<>> THEN <<>>
    ELSE IF strip(Head(pieces)) = <<>> THEN param_floats(Tail(pieces))
    ELSE <<IF py_float(strip(Head(pieces))).ok
           THEN py_float(strip(Head(pieces))).milli
           ELSE 0>> \o param_floats(Tail(pieces))

\* The index of the first "(" of token that a ")" follows, or 0
FirstGroup(token) ==
    IF \E i \in 1 .. Len(token) : token[i] = "(" /\ FirstAfter(token, ")", i) # 0
    THEN CHOOSE i \in 1 .. Len(token) :
            /\ token[i] = "(" /\ FirstAfter(token, ")", i) # 0
            /\ \A j \in 1 .. i - 1 : ~(token[j] = "(" /\ FirstAfter(token, ")", j) # 0)
    ELSE 0

\* parse_params: the params of a token, in thousandths
parse_params(token) ==
    LET i == FirstGroup(token)
    IN  IF i = 0 THEN <<>>
        ELSE param_floats(split_commas(Slice(token, i + 1, FirstAfter(token, ")", i) - 1)))

\* extract_symbol
extract_symbol(token) ==
    IF token[1] \in {"+", "-", "[", "]"} THEN <<token[1]>>
    ELSE IF AlnumRun(token) # <<>> THEN AlnumRun(token)
    ELSE token

(***************************************************************************)
(* The drawers (drawning/draw_2d.py)                                       *)
(*                                                                         *)
(* Lengths, widths and coordinates are in thousandths, angles in           *)
(* thousandths of a degree, so np.deg2rad changes nothing here.  Cosine    *)
(* and sine are exact to a thousandth at the multiples of 5 degrees, the   *)
(* only headings of the model; cos(90 deg) is 0 where numpy gives 6e-17.   *)
(***************************************************************************)
\* DrawersPile.__drawers: the drawer class registered under each key
DRAWERS ==
    [general    |-> "SVGDrawer2D",
     geometric  |-> "GeometricDrawer",
     sierpinski |-> "SierpinskiDrawer",
     dragon     |-> "DragonDrawer",
     plant      |-> "PlantDrawer",
     tree       |-> "TreeDrawer"]

\* A registry that hands out the base drawer for an unregistered key
pile_get_drawer_default(object_name) ==
    IF object_name \notin DOMAIN DRAWERS
    THEN [raised |-> FALSE, error |-> "", class |-> "SVGDrawer2D"]
    ELSE [raised |-> FALSE, error |-> "", class |-> DRAWERS[object_name]]

\* DrawersPile.get_drawer: the class under the key, or the exception
pile_get_drawer(object_name) ==
    IF object_name \notin DOMAIN DRAWERS
    THEN [raised |-> TRUE, error |-> "Unknown drawer", class |-> ""]
    ELSE [raised |-> FALSE, error |-> "", class |-> DRAWERS[object_name]]

\* The drawer classes
DrawerClasses == {DRAWERS[key] : key \in DOMAIN DRAWERS}

\* Every drawer drawing the symbols of the Sierpinski drawer
drawing_symbols_of_sierpinski(kind) == {<<"F">>, <<"G">>, <<"A">>, <<"B">>}

\* self.drawing_symbols and self.axiom_symbols of each drawer class
drawing_symbols(kind) ==
    IF kind = "SierpinskiDrawer" THEN {<<"F">>, <<"G">>, <<"A">>, <<"B">>}
    ELSE IF kind = "DragonDrawer" THEN {<<"F">>, <<"G">>}
    ELSE {<<"F">>}

axiom_symbols(kind) == IF kind = "PlantDrawer" THEN {<<"X">>} ELSE {<<"A">>}

Min(a, b) == IF a < b THEN a ELSE b

\* A maximum that keeps its first argument
Max_first(a, b) == a

Max(a, b) == IF a > b THEN a ELSE b

\* _get_color of each drawer class: the three numbers of the rgb string
get_color(kind, symbol, params, depth) ==
    LET width_mul == IF Len(params) >= 2 THEN params[2] ELSE 1000
    IN  IF kind = "TreeDrawer"
        THEN IF depth <= 1 \/ width_mul > 2000 THEN <<92, 51, 23>>
             ELSE IF depth <= 2 \/ width_mul > 1000 THEN <<120, 80, 35>>
             ELSE IF depth <= 3 \/ width_mul > 500 THEN <<100, 100, 30>>
             ELSE <<34, Min(139, 100 + depth * 5), 34>>
        ELSE IF kind = "GeometricDrawer" THEN <<30, 144, 255>>
        ELSE IF kind = "SierpinskiDrawer"
        THEN IF symbol \in {<<"F">>, <<"A">>}
             THEN <<Min(180, 138 + depth * 8), 43, 226>>
             ELSE <<Min(255, 255 - depth * 10), 105, 180>>
        ELSE IF kind = "DragonDrawer"
        THEN IF symbol = <<"F">>
             THEN <<255, Max(69, 165 - depth * 10), 0>>
             ELSE <<255, Max(0, 69 - depth * 7), 0>>
        ELSE IF kind = "PlantDrawer"
        THEN IF depth <= 1 \/ width_mul > 1500 THEN <<101, 67, 33>>
             ELSE IF depth <= 3 \/ width_mul > 800 THEN <<85, 107, 47>>
             ELSE <<34, Min(180, 100 + depth * 8), 34>>
        ELSE <<50, 50, 50>>

\* 1000 cos and 1000 sin of 0, 5, 10, ... 355 degrees
CosTable ==
    <<
      1000, 996, 985, 966, 940, 906, 866, 819, 766, 707, 643, 574,
      500, 423, 342, 259, 174, 87, 0, -87, -174, -259, -342, -423,
      -500, -574, -643, -707, -766, -819, -866, -906, -940, -966, -985, -996,
      -1000, -996, -985, -966, -940, -906, -866, -819, -766, -707, -643, -574,
      -500, -423, -342, -259, -174, -87, 0, 87, 174, 259, 342, 423,
      500, 574, 643, 707, 766, 819, 866, 906, 940, 966, 985, 996>>

SinTable ==
    <<
      0, 87, 174, 259, 342, 423, 500, 574, 643, 707, 766, 819,
      866, 906, 940, 966, 985, 996, 1000, 996, 985, 966, 940, 906,
      866, 819, 766, 707, 643, 574, 500, 423, 342, 259, 174, 87,
      0, -87, -174, -259, -342, -423, -500, -574, -643, -707, -766, -819,
      -866, -906, -940, -966, -985, -996, -1000, -996, -985, -966, -940, -906,
      -866, -819, -766, -707, -643, -574, -500, -423, -342, -259, -174, -87>>

\* a * b / 1000, to the nearest thousandth
MulMilli(a, b) ==
    IF a * b >= 0 THEN (a * b + 500) \div 1000 ELSE -((-(a * b) + 500) \div 1000)

\* np.cos(angle) and np.sin(angle) of an angle that is a multiple of 5 degrees
np_cos(angle) == CosTable[((angle % 360000) \div 5000) + 1]

np_sin(angle) == SinTable[((angle % 360000) \div 5000) + 1]

\* SVGDrawer2D.__init__ of the drawer class of a kind
new_drawer(kind, base_width, base_length, base_angle) ==
    [NoDrawer EXCEPT !.pc = "ready",
                     !.kind = kind,
                     !.base_width = base_width,
                     !.base_length = base_length,
                     !.base_angle = base_angle]

\* The first lines of draw: the locals before the loop
draw_enter(D, tokens) ==
    [D EXCEPT !.pc = "loop",
              !.tokens = tokens,
              !.next = 1,
              !.segments = <<>>,
              !.colors = <<>>,
              !.stack = <<>>,
              !.depth = 0,
              !.x = 0, !.y = 0, !.angle = 90000,
              !.min_x = 0, !.max_x = 0, !.min_y = 0, !.max_y = 0,
              !.max_depth = 0,
              !.view_box = <<>>]

\* The branch of the loop of draw the next token takes
draw_branch(D) ==
    LET symbol == extract_symbol(D.tokens[D.next])
    IN  IF symbol \in drawing_symbols(D.kind) THEN "draw"
        ELSE IF symbol = <<"+">> THEN "+"
        ELSE IF symbol = <<"-">> THEN "-"
        ELSE IF symbol = <<"[">> THEN "["
        ELSE IF symbol = <<"]">> THEN "]"
        ELSE IF symbol \in axiom_symbols(D.kind) THEN "axiom"
        ELSE "unknown"

\* A drawing-symbol branch that moves the cursor and records no segment
draw_segment_unrecorded(D) ==
    LET token == D.tokens[D.next]
        params == parse_params(token)
        length_mul == IF Len(params) >= 1 THEN params[1] ELSE 1000
        length == MulMilli(D.base_length, length_mul)
    IN  [D EXCEPT !.x = D.x + MulMilli(length, np_cos(D.angle)),
                  !.y = D.y + MulMilli(length, np_sin(D.angle)),
                  !.next = D.next + 1]

\* The drawing-symbol branch: emit a segment, grow the box, move the cursor
draw_segment(D) ==
    LET token == D.tokens[D.next]
        params == parse_params(token)
        length_mul == IF Len(params) >= 1 THEN params[1] ELSE 1000
        width_mul == IF Len(params) >= 2 THEN params[2] ELSE 1000
        length == MulMilli(D.base_length, length_mul)
        width == MulMilli(D.base_width, width_mul)
        new_x == D.x + MulMilli(length, np_cos(D.angle))
        new_y == D.y + MulMilli(length, np_sin(D.angle))
        color == get_color(D.kind, extract_symbol(token), params, D.depth)
    IN  [D EXCEPT !.segments = Append(D.segments, <<D.x, D.y, new_x, new_y, width>>),
                  !.colors = Append(D.colors, color),
                  !.min_x = Min(Min(D.min_x, D.x), new_x),
                  !.max_x = Max(Max(D.max_x, D.x), new_x),
                  !.min_y = Min(Min(D.min_y, D.y), new_y),
                  !.max_y = Max(Max(D.max_y, D.y), new_y),
                  !.x = new_x,
                  !.y = new_y,
                  !.next = D.next + 1]

\* turn = np.deg2rad(params[0]) if params else self.base_angle
turn_of(D) ==
    IF parse_params(D.tokens[D.next]) # <<>>
    THEN parse_params(D.tokens[D.next])[1]
    ELSE D.base_angle

turn_plus(D) == [D EXCEPT !.angle = D.angle + turn_of(D), !.next = D.next + 1]

turn_minus(D) == [D EXCEPT !.angle = D.angle - turn_of(D), !.next = D.next + 1]

\* stack.append((x, y, angle)); depth += 1
push_state(D) ==
    [D EXCEPT !.stack = Append(D.stack, <<D.x, D.y, D.angle>>),
              !.depth = D.depth + 1,
              !.next = D.next + 1]

\* A pop that sends the cursor back to the origin when the stack is empty
pop_state_to_origin(D) ==
    IF D.stack # <<>>
    THEN [D EXCEPT !.x = D.stack[Len(D.stack)][1],
                   !.y = D.stack[Len(D.stack)][2],
                   !.angle = D.stack[Len(D.stack)][3],
                   !.stack = Slice(D.stack, 1, Len(D.stack) - 1),
                   !.max_depth = Max(D.max_depth, D.depth),
                   !.depth = D.depth - 1,
                   !.next = D.next + 1]
    ELSE [D EXCEPT !.x = 0, !.y = 0, !.angle = 90000, !.next = D.next + 1]

\* A pop that restores the position and keeps the heading
pop_state_keep_heading(D) ==
    IF D.stack # <<>>
    THEN [D EXCEPT !.x = D.stack[Len(D.stack)][1],
                   !.y = D.stack[Len(D.stack)][2],
                   !.stack = Slice(D.stack, 1, Len(D.stack) - 1),
                   !.max_depth = Max(D.max_depth, D.depth),
                   !.depth = D.depth - 1,
                   !.next = D.next + 1]
    ELSE [D EXCEPT !.next = D.next + 1]

\* A pop that lowers the depth whether or not the stack holds a state
pop_state_depth_unguarded(D) ==
    IF D.stack # <<>>
    THEN [D EXCEPT !.x = D.stack[Len(D.stack)][1],
                   !.y = D.stack[Len(D.stack)][2],
                   !.angle = D.stack[Len(D.stack)][3],
                   !.stack = Slice(D.stack, 1, Len(D.stack) - 1),
                   !.max_depth = Max(D.max_depth, D.depth),
                   !.depth = D.depth - 1,
                   !.next = D.next + 1]
    ELSE [D EXCEPT !.depth = D.depth - 1, !.next = D.next + 1]

\* if stack: x, y, angle = stack.pop(); max_depth = max(...); depth -= 1
pop_state(D) ==
    IF D.stack # <<>>
    THEN [D EXCEPT !.x = D.stack[Len(D.stack)][1],
                   !.y = D.stack[Len(D.stack)][2],
                   !.angle = D.stack[Len(D.stack)][3],
                   !.stack = Slice(D.stack, 1, Len(D.stack) - 1),
                   !.max_depth = Max(D.max_depth, D.depth),
                   !.depth = D.depth - 1,
                   !.next = D.next + 1]
    ELSE [D EXCEPT !.next = D.next + 1]

\* pass
skip_axiom(D) == [D EXCEPT !.next = D.next + 1]

\* self.logger.warning(f"Unknown symbol {symbol}, skipping")
warn_unknown(D) == [D EXCEPT !.warnings = D.warnings + 1, !.next = D.next + 1]

\* The lines of draw after the loop: padding, width and height of the view
\* box, in thousandths
save_svg(D) ==
    LET padding == Max(10000, MulMilli(D.max_x - D.min_x, 50))
    IN  [D EXCEPT !.pc = "saved",
                  !.view_box = <<D.min_x - padding, -(D.max_y + padding),
                                 D.max_x - D.min_x + 2 * padding,
                                 D.max_y - D.min_y + 2 * padding>>]

(***************************************************************************)
(* utils/lsystem_loader.py                                                 *)
(*                                                                         *)
(* A template is the dict of a templates file: base_axiom, rules, the      *)
(* params length, angle, width and iterations, and drawer_name.            *)
(***************************************************************************)
\* Loader.parse_rule: (pattern, replacement, axiom, probability)
parse_rule(rule_dict) ==
    [key |-> rule_dict.pattern,
     replacement |-> IF rule_dict.is_parametric
                     THEN parse_lambda_string(rule_dict.replacement)
                     ELSE Literal(rule_dict.replacement),
     axiom |-> rule_dict.axiom,
     prob |-> rule_dict.probability]

\* re.sub of a word that stands alone by repl, from index i of text on; the
\* neighbours that forbid the match are the letters when letters_only (the
\* lookarounds of L and W), the word characters otherwise (the \b of angle)
RECURSIVE sub_standalone(_, _, _, _, _)
sub_standalone(text, i, word, letters_only, repl) ==
    LET n == Len(word)
        joins(c) == IF letters_only THEN c \in Letters ELSE IsWordChar(c)
        here == /\ i + n - 1 <= Len(text)
                /\ SubSeq(text, i, i + n - 1) = word
                /\ ~(i > 1 /\ joins(text[i - 1]))
                /\ ~(i + n <= Len(text) /\ joins(text[i + n]))
    IN  IF i > Len(text) THEN <<>>
        ELSE IF here THEN repl \o sub_standalone(text, i + n, word, letters_only, repl)
        ELSE <<text[i]>> \o sub_standalone(text, i + 1, word, letters_only, repl)

\* The three substitutions of modify_axioms_with_base on one rule text
modify_rule_text(rule, base_angle, base_length, base_width) ==
    sub_standalone(
        sub_standalone(
            sub_standalone(rule, 1, <<"a", "n", "g", "l", "e">>, FALSE, py_str(base_angle)),
            1, <<"L">>, TRUE, py_str(base_length)),
        1, <<"W">>, TRUE, py_str(base_width))

\* Loader.modify_axioms_with_base; re.sub raises TypeError on a callable
modify_axioms_with_base(axioms, base_angle, base_length, base_width) ==
    [i \in 1 .. Len(axioms) |->
        [axioms[i] EXCEPT !.replacement =
            Literal(modify_rule_text(axioms[i].replacement.template,
                                     base_angle, base_length, base_width))]]

\* The rules of a list whose axiom flag is `axiom`, in order
RECURSIVE rules_flagged(_, _)
rules_flagged(parsed, axiom) ==
    IF parsed = <<>> THEN <<>>
    ELSE (IF Head(parsed).axiom = axiom THEN <<Head(parsed)>> ELSE <<>>)
            \o rules_flagged(Tail(parsed), axiom)

\* Loader.get_init_params: [raised, all_rules]
get_init_params(template) ==
    LET parsed == [i \in 1 .. Len(template.rules) |-> parse_rule(template.rules[i])]
        axioms == rules_flagged(parsed, TRUE)
        rules == rules_flagged(parsed, FALSE)
    IN  IF \E i \in 1 .. Len(axioms) : axioms[i].replacement.kind # "str"
        THEN [raised |-> TRUE, all_rules |-> <<>>]
        ELSE [raised |-> FALSE,
              all_rules |-> modify_axioms_with_base(axioms, template.angle,
                                                    template.length, template.width)
                            \o rules]

\* Loader.get_drawer: the class of template.get("drawer_name", "general")
loader_get_drawer(template) ==
    pile_get_drawer(IF "drawer_name" \in DOMAIN template
                    THEN template.drawer_name
                    ELSE "general")

(***************************************************************************)
(* The run of main in mode 0 (main.py)                                     *)
(***************************************************************************)
MaxIter == 2

\* The branching rule alone
Scenario1 ==
    [base_axiom |-> <<"A">>,
     rules |-> <<[pattern |-> <<"A">>,
          replacement |-> <<"F", "[", "+", "A", "]", "[", "-", "A", "]">>,
          probability |-> 1000, axiom |-> FALSE, is_parametric |-> FALSE]>>,
     length |-> PyInt(10), angle |-> PyInt(25), width |-> PyInt(1),
     iterations |-> 0,
     drawer_name |-> "general"]

\* The branching rule and the doubling rule, for the tree drawer
BinaryTree ==
    [base_axiom |-> <<"A">>,
     rules |-> <<[pattern |-> <<"A">>,
          replacement |-> <<"F", "[", "+", "A", "]", "[", "-", "A", "]">>,
          probability |-> 1000, axiom |-> FALSE, is_parametric |-> FALSE],
        [pattern |-> <<"F">>,
          replacement |-> <<"F", "F">>,
          probability |-> 1000, axiom |-> FALSE, is_parametric |-> FALSE]>>,
     length |-> PyInt(10), angle |-> PyInt(25), width |-> PyInt(1),
     iterations |-> 0,
     drawer_name |-> "tree"]

\* Two alternatives of a half each; an unmatched closing bracket, a point and
\* a trailing blank in the axiom
Stochastic ==
    [base_axiom |-> <<"A", "]", "F", ".", " ">>,
     rules |-> <<[pattern |-> <<"A">>,
          replacement |-> <<"F", "[", "+", "A", "]">>,
          probability |-> 500, axiom |-> FALSE, is_parametric |-> FALSE],
        [pattern |-> <<"A">>,
          replacement |-> <<"F", "[", "-", "A", "]">>,
          probability |-> 500, axiom |-> FALSE, is_parametric |-> FALSE]>>,
     length |-> PyFloat(5000), angle |-> PyInt(30), width |-> PyFloat(2000),
     iterations |-> 0,
     drawer_name |-> "plant"]

\* A parametric rule, in a template that names no drawer
Shrinking ==
    [base_axiom |-> <<"F", "(", "5", ")">>,
     rules |-> <<[pattern |-> <<"F", "(", "x", ")">>,
          replacement |-> <<"F", "(", "{", "x", "-", "1", "}", ")">>,
          probability |-> 1000, axiom |-> FALSE, is_parametric |-> TRUE]>>,
     length |-> PyInt(10), angle |-> PyInt(25), width |-> PyInt(1),
     iterations |-> 0]

\* An axiom rule that names the base length and the base angle
Seeded ==
    [base_axiom |-> <<"A">>,
     rules |-> <<[pattern |-> <<"F">>,
          replacement |-> <<"F", "F">>,
          probability |-> 1000, axiom |-> FALSE, is_parametric |-> FALSE],
        [pattern |-> <<"A">>,
          replacement |-> <<"F", "(", "L", ")", "[", "+", "(", "a", "n", "g", "l", "e", ")", "A", "]">>,
          probability |-> 1000, axiom |-> TRUE, is_parametric |-> FALSE]>>,
     length |-> PyInt(10), angle |-> PyInt(25), width |-> PyInt(1),
     iterations |-> 0,
     drawer_name |-> "geometric"]

\* The dragon curve
Dragon ==
    [base_axiom |-> <<"F">>,
     rules |-> <<[pattern |-> <<"F">>,
          replacement |-> <<"F", "+", "G">>,
          probability |-> 1000, axiom |-> FALSE, is_parametric |-> FALSE],
        [pattern |-> <<"G">>,
          replacement |-> <<"F", "-", "G">>,
          probability |-> 1000, axiom |-> FALSE, is_parametric |-> FALSE]>>,
     length |-> PyInt(10), angle |-> PyInt(90), width |-> PyInt(1),
     iterations |-> 0,
     drawer_name |-> "dragon"]

\* The arrowhead curve
Sierpinski ==
    [base_axiom |-> <<"A">>,
     rules |-> <<[pattern |-> <<"A">>,
          replacement |-> <<"B", "-", "A", "-", "B">>,
          probability |-> 1000, axiom |-> FALSE, is_parametric |-> FALSE],
        [pattern |-> <<"B">>,
          replacement |-> <<"A", "+", "B", "+", "A">>,
          probability |-> 1000, axiom |-> FALSE, is_parametric |-> FALSE]>>,
     length |-> PyInt(10), angle |-> PyInt(60), width |-> PyInt(1),
     iterations |-> 0,
     drawer_name |-> "sierpinski"]

\* A template that names no registered drawer
Spiral ==
    [base_axiom |-> <<"A">>,
     rules |-> <<[pattern |-> <<"A">>,
          replacement |-> <<"F", "[", "+", "A", "]", "[", "-", "A", "]">>,
          probability |-> 1000, axiom |-> FALSE, is_parametric |-> FALSE]>>,
     length |-> PyInt(10), angle |-> PyInt(25), width |-> PyInt(1),
     iterations |-> 0,
     drawer_name |-> "spiral"]

\* A parametric rule under a key without parameters
Broken ==
    [base_axiom |-> <<"F">>,
     rules |-> <<[pattern |-> <<"F">>,
          replacement |-> <<"F", "(", "{", "x", "}", ")">>,
          probability |-> 1000, axiom |-> FALSE, is_parametric |-> TRUE]>>,
     length |-> PyInt(10), angle |-> PyInt(25), width |-> PyInt(1),
     iterations |-> 0,
     drawer_name |-> "general"]

ObjectTemplates ==
    {[t EXCEPT !.iterations = n] :
        t \in {Scenario1, BinaryTree, Stochastic, Shrinking, Seeded, Dragon, Sierpinski, Spiral, Broken},
        n \in 0 .. MaxIter}

\* LSystemMixin.__init__ followed by add_rules
new_system(axiom, init_rules) ==
    [NoSystem EXCEPT !.axiom = axiom,
                     !.state = axiom,
                     !.rules = add_rules(<<>>, init_rules)]

\* The streams of draws the random module can be seeded to
RandomStreams == {<<0>>, <<999>>, <<250, 750>>, <<500>>}

Init ==
    /\ lexer = NoLexer
    /\ pick = NoPick
    /\ lam = NoLambda
    /\ \E template \in ObjectTemplates :
            main = [NoMain EXCEPT !.pc = "get_drawer", !.template = template]
    /\ l_system = NoSystem
    /\ \E stream \in RandomStreams : random = [stream |-> stream, next |-> 1]
    /\ drawer = NoDrawer

\* system_init: init_loader.get_drawer(template)
GetDrawer ==
    /\ main.pc = "get_drawer"
    /\ main' = IF loader_get_drawer(main.template).raised
               THEN [main EXCEPT !.pc = "raised",
                                 !.error = loader_get_drawer(main.template).error]
               ELSE [main EXCEPT !.pc = "get_init_params",
                                 !.drawer_class = loader_get_drawer(main.template).class]
    /\ UNCHANGED <<lexer, pick, lam, l_system, random, drawer>>

\* system_init: init_loader.get_init_params(template)
GetInitParams ==
    /\ main.pc = "get_init_params"
    /\ main' = IF get_init_params(main.template).raised
               THEN [main EXCEPT !.pc = "raised", !.error = "TypeError"]
               ELSE [main EXCEPT !.pc = "add_rules",
                                 !.init_rules = get_init_params(main.template).all_rules,
                                 !.init_iter = main.template.iterations]
    /\ UNCHANGED <<lexer, pick, lam, l_system, random, drawer>>

\* system_init: the drawer object, the engine object, l_system.add_rules
AddRules ==
    /\ main.pc = "add_rules"
    /\ drawer' = new_drawer(main.drawer_class,
                            main.template.width.milli,
                            main.template.length.milli,
                            main.template.angle.milli)
    /\ l_system' = new_system(main.template.base_axiom, main.init_rules)
    /\ main' = [main EXCEPT !.pc = "generate"]
    /\ UNCHANGED <<lexer, pick, lam, random>>

\* A call that starts over from the axiom
GenerateCallFromAxiom ==
    /\ main.pc = "generate"
    /\ main' = [main EXCEPT !.pc = "in_generate"]
    /\ l_system' = [l_system EXCEPT !.pc = "for_i", !.n_iter = main.init_iter, !.i = 0,
                                    !.state = l_system.axiom]
    /\ UNCHANGED <<lexer, pick, lam, random, drawer>>

\* l_system.generate(init_iter) is called
GenerateCall ==
    /\ main.pc = "generate"
    /\ main' = [main EXCEPT !.pc = "in_generate"]
    /\ l_system' = [l_system EXCEPT !.pc = "for_i", !.n_iter = main.init_iter, !.i = 0]
    /\ UNCHANGED <<lexer, pick, lam, random, drawer>>

\* for i in range(n_iter): new_state = self.state
GenerateLayer ==
    /\ l_system.pc = "for_i"
    /\ l_system.i < l_system.n_iter
    /\ l_system' = [l_system EXCEPT !.pc = "for_base",
                                    !.k = 1,
                                    !.new_state = l_system.state,
                                    !.scan = 1,
                                    !.out = <<>>]
    /\ UNCHANGED <<lexer, pick, lam, main, random, drawer>>

\* Inside re.sub(pattern, lambda m: self._apply_rule(pattern, rules, m),
\* new_state) for the k-th symbol of self.rules: the leftmost match from the
\* scan position on is handed to _apply_rule, and the text before it and its
\* replacement are put out
GenerateMatch ==
    /\ l_system.pc = "for_base"
    /\ l_system.k <= Len(l_system.rules)
    /\ LET rules == l_system.rules[l_system.k].rules
           pattern == rules[1].pattern
           j == next_match(pattern, l_system.new_state, l_system.scan)
           m == match_at(pattern, l_system.new_state, j)
           applied == apply_rule(pattern, rules,
                                 [group1 |-> m.group1, text |-> m.text], random)
       IN  /\ j # 0
           /\ random' = applied.rng
           /\ IF applied.result.raised
              THEN /\ l_system' = [l_system EXCEPT !.pc = "raised"]
                   /\ main' = [main EXCEPT !.pc = "raised",
                                           !.error = applied.result.error]
              ELSE /\ l_system' =
                        [l_system EXCEPT
                            !.out = l_system.out
                                    \o Slice(l_system.new_state, l_system.scan, j - 1)
                                    \o applied.result.value,
                            !.scan = m.last + 1]
                   /\ UNCHANGED main
    /\ UNCHANGED <<lexer, pick, lam, drawer>>

\* re.sub finds no further match: new_state = what it put out and the rest
\* of the text; the loop goes to the next symbol of self.rules
GenerateSubEnd ==
    /\ l_system.pc = "for_base"
    /\ l_system.k <= Len(l_system.rules)
    /\ next_match(l_system.rules[l_system.k].rules[1].pattern,
                  l_system.new_state, l_system.scan) = 0
    /\ l_system' = [l_system EXCEPT
                        !.new_state = l_system.out
                                      \o Slice(l_system.new_state, l_system.scan,
                                               Len(l_system.new_state)),
                        !.k = l_system.k + 1,
                        !.scan = 1,
                        !.out = <<>>]
    /\ UNCHANGED <<lexer, pick, lam, main, random, drawer>>

\* self.state = new_state, at the end of an iteration
GenerateLayerEnd ==
    /\ l_system.pc = "for_base"
    /\ l_system.k > Len(l_system.rules)
    /\ l_system' = [l_system EXCEPT !.pc = "for_i",
                                    !.state = l_system.new_state,
                                    !.i = l_system.i + 1]
    /\ UNCHANGED <<lexer, pick, lam, main, random, drawer>>

\* return self.state
GenerateReturn ==
    /\ l_system.pc = "for_i"
    /\ l_system.i >= l_system.n_iter
    /\ l_system' = [l_system EXCEPT !.pc = "returned"]
    /\ main' = [main EXCEPT !.pc = "tokenize"]
    /\ UNCHANGED <<lexer, pick, lam, random, drawer>>

\* The generated state is handed to a lexer
TokenizeCall ==
    /\ main.pc = "tokenize"
    /\ lexer' = LSystemLexer(l_system.state)
    /\ main' = [main EXCEPT !.pc = "in_tokenize"]
    /\ UNCHANGED <<pick, lam, l_system, random, drawer>>

\* The token list of the lexer is the token_state of main
TokenizeReturn ==
    /\ main.pc = "in_tokenize"
    /\ lexer.pc = "done"
    /\ main' = [main EXCEPT !.pc = "draw", !.token_state = lexer.tokens]
    /\ UNCHANGED <<lexer, pick, lam, l_system, random, drawer>>

\* drawer.draw(tokens=token_state, ...) up to its loop
DrawEnter ==
    /\ main.pc = "draw"
    /\ drawer.pc = "ready"
    /\ drawer' = draw_enter(drawer, main.token_state)
    /\ UNCHANGED <<lexer, pick, lam, main, l_system, random>>

DrawSegment ==
    /\ drawer.pc = "loop"
    /\ drawer.next <= Len(drawer.tokens)
    /\ draw_branch(drawer) = "draw"
    /\ drawer' = draw_segment(drawer)
    /\ UNCHANGED <<lexer, pick, lam, main, l_system, random>>

DrawPlus ==
    /\ drawer.pc = "loop"
    /\ drawer.next <= Len(drawer.tokens)
    /\ draw_branch(drawer) = "+"
    /\ drawer' = turn_plus(drawer)
    /\ UNCHANGED <<lexer, pick, lam, main, l_system, random>>

DrawMinus ==
    /\ drawer.pc = "loop"
    /\ drawer.next <= Len(drawer.tokens)
    /\ draw_branch(drawer) = "-"
    /\ drawer' = turn_minus(drawer)
    /\ UNCHANGED <<lexer, pick, lam, main, l_system, random>>

DrawPush ==
    /\ drawer.pc = "loop"
    /\ drawer.next <= Len(drawer.tokens)
    /\ draw_branch(drawer) = "["
    /\ drawer' = push_state(drawer)
    /\ UNCHANGED <<lexer, pick, lam, main, l_system, random>>

DrawPop ==
    /\ drawer.pc = "loop"
    /\ drawer.next <= Len(drawer.tokens)
    /\ draw_branch(drawer) = "]"
    /\ drawer' = pop_state(drawer)
    /\ UNCHANGED <<lexer, pick, lam, main, l_system, random>>

DrawAxiom ==
    /\ drawer.pc = "loop"
    /\ drawer.next <= Len(drawer.tokens)
    /\ draw_branch(drawer) = "axiom"
    /\ drawer' = skip_axiom(drawer)
    /\ UNCHANGED <<lexer, pick, lam, main, l_system, random>>

DrawUnknown ==
    /\ drawer.pc = "loop"
    /\ drawer.next <= Len(drawer.tokens)
    /\ draw_branch(drawer) = "unknown"
    /\ drawer' = warn_unknown(drawer)
    /\ UNCHANGED <<lexer, pick, lam, main, l_system, random>>

\* After the loop: the view box, the file, the log of max_depth
DrawSave ==
    /\ drawer.pc = "loop"
    /\ drawer.next > Len(drawer.tokens)
    /\ drawer' = save_svg(drawer)
    /\ main' = [main EXCEPT !.pc = "done"]
    /\ UNCHANGED <<lexer, pick, lam, l_system, random>>

Next ==
    \/ GetDrawer
    \/ GetInitParams
    \/ AddRules
    \/ GenerateCall
    \/ GenerateLayer
    \/ GenerateMatch
    \/ GenerateSubEnd
    \/ GenerateLayerEnd
    \/ GenerateReturn
    \/ TokenizeCall
    \/ LexerNext
    \/ TokenizeReturn
    \/ DrawEnter
    \/ DrawSegment
    \/ DrawPlus
    \/ DrawMinus
    \/ DrawPush
    \/ DrawPop
    \/ DrawAxiom
    \/ DrawUnknown
    \/ DrawSave

Spec == Init /\ [][Next]_vars

(***************************************************************************)
(* generate calls on their own: a caller builds an engine from a template, *)
(* seeds the random module and calls generate; when the call has returned  *)
(* it seeds the random module the same way and calls generate again with   *)
(* the same iteration count, on the same engine or on a new engine built   *)
(* from the same axiom and rules.  main.returned holds the values the      *)
(* earlier calls returned, main.fresh tells whether the engine of the      *)
(* current call was new when the call was made, main.passes counts the    *)
(* passes the engine has run in earlier calls.                             *)
(***************************************************************************)
MaxCalls == 2

EngineInit ==
    /\ lexer = NoLexer
    /\ pick = NoPick
    /\ lam = NoLambda
    /\ drawer = NoDrawer
    /\ \E stream \in RandomStreams : random = [stream |-> stream, next |-> 1]
    /\ \E template \in {t \in ObjectTemplates : ~get_init_params(t).raised} :
            /\ main = [NoMain EXCEPT !.pc = "generate",
                                     !.template = template,
                                     !.init_rules = get_init_params(template).all_rules,
                                     !.init_iter = template.iterations]
            /\ l_system = new_system(template.base_axiom,
                                     get_init_params(template).all_rules)

\* The call has returned; the next call is made on the same engine
EngineAgain ==
    /\ main.pc = "tokenize"
    /\ Len(main.returned) + 1 < MaxCalls
    /\ main' = [main EXCEPT !.pc = "generate",
                            !.fresh = FALSE,
                            !.passes = main.passes + main.init_iter,
                            !.returned = Append(main.returned, l_system.state)]
    /\ random' = [random EXCEPT !.next = 1]
    /\ UNCHANGED <<lexer, pick, lam, l_system, drawer>>

\* The call has returned; the next call is made on a new engine of the same
\* axiom and rules
EngineRenew ==
    /\ main.pc = "tokenize"
    /\ Len(main.returned) + 1 < MaxCalls
    /\ main.fresh
    /\ main' = [main EXCEPT !.pc = "generate",
                            !.passes = 0,
                            !.returned = Append(main.returned, l_system.state)]
    /\ random' = [random EXCEPT !.next = 1]
    /\ l_system' = new_system(main.template.base_axiom, main.init_rules)
    /\ UNCHANGED <<lexer, pick, lam, drawer>>

EngineNext ==
    \/ GenerateCall
    \/ GenerateLayer
    \/ GenerateMatch
    \/ GenerateSubEnd
    \/ GenerateLayerEnd
    \/ GenerateReturn
    \/ EngineAgain
    \/ EngineRenew

SpecEngine == EngineInit /\ [][EngineNext]_vars

(***************************************************************************)
(* generate calls that continue: after generate(n) has returned, the       *)
(* caller calls generate(m) on the same engine, and when that has returned *)
(* it builds a new engine of the same axiom and rules and calls            *)
(* generate(n + m) on it; main.whole marks that last call.                 *)
(***************************************************************************)
\* generate(m) on the engine that has run generate(n)
EngineContinue ==
    /\ main.pc = "tokenize"
    /\ main.returned = <<>>
    /\ \E m \in 0 .. MaxIter - main.init_iter :
            main' = [main EXCEPT !.pc = "generate",
                                 !.fresh = FALSE,
                                 !.init_iter = m,
                                 !.passes = main.passes + main.init_iter,
                                 !.returned = Append(main.returned, l_system.state)]
    /\ random' = [random EXCEPT !.next = 1]
    /\ UNCHANGED <<lexer, pick, lam, l_system, drawer>>

\* generate(n + m) on a new engine of the same axiom and rules
EngineWhole ==
    /\ main.pc = "tokenize"
    /\ ~main.fresh
    /\ ~main.whole
    /\ main' = [main EXCEPT !.pc = "generate",
                            !.fresh = TRUE,
                            !.whole = TRUE,
                            !.init_iter = main.passes + main.init_iter,
                            !.passes = 0,
                            !.returned = Append(main.returned, l_system.state)]
    /\ random' = [random EXCEPT !.next = 1]
    /\ l_system' = new_system(main.template.base_axiom, main.init_rules)
    /\ UNCHANGED <<lexer, pick, lam, drawer>>

ResumeNext ==
    \/ GenerateCall
    \/ GenerateLayer
    \/ GenerateMatch
    \/ GenerateSubEnd
    \/ GenerateLayerEnd
    \/ GenerateReturn
    \/ EngineContinue
    \/ EngineWhole

SpecResume == EngineInit /\ [][ResumeNext]_vars

(***************************************************************************)
(* A draw call on its own: a drawer of each class is handed a token list   *)
(***************************************************************************)
MaxTokens == 4

\* Tokens of every branch of the loop of draw: drawing symbols with and
\* without params, one of them with a param that is no number, turns with
\* and without an angle, brackets, the symbols A, X and G
DrawTokens ==
    {<<"F">>, <<"F", "(", "2", ",", " ", "x", ")">>, <<"+">>,
     <<"-", "(", "9", "0", ")">>, <<"[">>, <<"]">>, <<"A">>, <<"X">>, <<"G">>}

DrawInputs == SeqsUpTo(DrawTokens, MaxTokens)

DrawInit ==
    /\ lexer = NoLexer
    /\ pick = NoPick
    /\ lam = NoLambda
    /\ l_system = NoSystem
    /\ random = NoRandom
    /\ \E class \in DrawerClasses, tokens \in DrawInputs :
            /\ main = [NoMain EXCEPT !.pc = "draw",
                                     !.drawer_class = class,
                                     !.token_state = tokens]
            /\ drawer = new_drawer(class, 1000, 10000, 25000)

DrawNext ==
    \/ DrawEnter
    \/ DrawSegment
    \/ DrawPlus
    \/ DrawMinus
    \/ DrawPush
    \/ DrawPop
    \/ DrawAxiom
    \/ DrawUnknown
    \/ DrawSave

SpecDraw == DrawInit /\ [][DrawNext]_vars

(***************************************************************************)
(* Claims about the run                                                    *)
(***************************************************************************)
\* The texts a pass that visits each token once can put in place of a token:
\* the replacement of one of the rules of its base symbol, or the token
\* itself when its base symbol has no rules
TokenOutputs(table, token) ==
    IF \E k \in 1 .. Len(table) : table[k].base = before_paren(token)
    THEN LET k == CHOOSE h \in 1 .. Len(table) : table[h].base = before_paren(token)
         IN  {table[k].rules[r].replacement.template : r \in 1 .. Len(table[k].rules)}
    ELSE {token}

\* The outputs of such a pass over a token sequence: the concatenations, in
\* order, of one such text per token
RECURSIVE TokenPassOutputs(_, _)
TokenPassOutputs(table, tokens) ==
    IF tokens = <<>> THEN {<<>>}
    ELSE {h \o t : h \in TokenOutputs(table, Head(tokens)),
                   t \in TokenPassOutputs(table, Tail(tokens))}

\* Every replacement of the rule table is a literal text
LiteralTable(table) ==
    \A k \in 1 .. Len(table) : \A r \in 1 .. Len(table[k].rules) :
        table[k].rules[r].replacement.kind = "str"

\* C1: in every generation pass each token of the pass's input is visited
\* exactly once: with literal rules, and an input state that is the text of
\* its own token sequence, the state a pass leaves is the in-order
\* concatenation of one replacement per token that has rules and of the
\* token itself otherwise, so no text a replacement produced is rewritten
\* again in the same pass.
C1_TokenOncePerPass ==
    [][(/\ l_system.pc = "for_base"
        /\ l_system'.pc = "for_i"
        /\ LiteralTable(l_system.rules)
        /\ join(<<>>, tokenize(l_system.state)) = l_system.state)
       => l_system'.state \in TokenPassOutputs(l_system.rules, tokenize(l_system.state))]_vars

\* The run of scenario 1: axiom "A", the single rule A -> "F[+A][-A]" of
\* probability 1.0, base angle 25, base length 10, 1 iteration
C8_Scenario == main.template = [Scenario1 EXCEPT !.iterations = 1]

C8_Tokens ==
    <<<<"F">>, <<"[">>, <<"+">>, <<"A">>, <<"]">>, <<"[">>, <<"-">>, <<"A">>, <<"]">>>>

\* C8 as stated: in scenario 1 the token list is exactly F [ + A ] [ - A ]
\* and has 8 tokens, and drawing it emits exactly one segment, from (0,0) to
\* (0,10).
C8_EightTokens ==
    (C8_Scenario /\ main.pc = "done")
        => /\ main.token_state = C8_Tokens
           /\ Len(main.token_state) = 8
           /\ Len(drawer.segments) = 1
           /\ SubSeq(drawer.segments[1], 1, 4) = <<0, 0, 0, 10000>>

\* C8: in scenario 1 the token list is exactly F [ + A ] [ - A ], which has
\* 9 tokens, and drawing it emits exactly one segment, of length 10 along
\* heading 90 degrees, from (0,0) to (0,10); no second segment exists at any
\* moment of the drawing.
C8_NineTokens ==
    /\ (C8_Scenario /\ main.pc = "done")
            => /\ main.token_state = C8_Tokens
               /\ Len(main.token_state) = 9
               /\ Len(drawer.segments) = 1
               /\ SubSeq(drawer.segments[1], 1, 4) = <<0, 0, 0, 10000>>
    /\ C8_Scenario => Len(drawer.segments) <= 1

C8_Witness ==
    /\ C8_Scenario
    /\ main.pc = "done"
    /\ l_system.i = 1
    /\ drawer.pc = "saved"
    /\ Len(drawer.segments) = 1

\* The class the registry is to hand out for each key
RegisteredClass ==
    [general    |-> "SVGDrawer2D",
     geometric  |-> "GeometricDrawer",
     sierpinski |-> "SierpinskiDrawer",
     dragon     |-> "DragonDrawer",
     plant      |-> "PlantDrawer",
     tree       |-> "TreeDrawer"]

\* Keys that are not registered
OtherKeys == {"spiral", "", "General", "trees", "svg", "SVGDrawer2D"}

\* The drawer key of the template of the run
RunKey ==
    IF "drawer_name" \in DOMAIN main.template THEN main.template.drawer_name
    ELSE "general"

\* C18: resolving a drawer by key returns the registered class for each of
\* general, geometric, sierpinski, dragon, plant and tree, and raises
\* "Unknown drawer" for any other key; in a run that failure comes before
\* any rule is added and before any generation pass or drawing step.
C18_UnknownDrawerFirst ==
    /\ \A key \in DOMAIN RegisteredClass :
            /\ ~pile_get_drawer(key).raised
            /\ pile_get_drawer(key).class = RegisteredClass[key]
    /\ \A key \in OtherKeys :
            /\ pile_get_drawer(key).raised
            /\ pile_get_drawer(key).error = "Unknown drawer"
    /\ RunKey \notin DOMAIN RegisteredClass =>
            /\ main.pc \in {"get_drawer", "raised"}
            /\ main.pc = "raised" => main.error = "Unknown drawer"
            /\ main.init_rules = <<>>
            /\ l_system = NoSystem
            /\ drawer = NoDrawer
            /\ lexer = NoLexer
    /\ (RunKey \in DOMAIN RegisteredClass /\ main.pc # "get_drawer") =>
            /\ main.drawer_class = RegisteredClass[RunKey]
            /\ main.error # "Unknown drawer"
            /\ drawer.pc # "none" => drawer.kind = RegisteredClass[RunKey]

\* The run of a template that names the drawer "spiral" has failed
C18_Witness ==
    /\ RunKey = "spiral"
    /\ main.pc = "raised"
    /\ main.error = "Unknown drawer"
    /\ main.template.iterations = 2

\* The current generate call has returned, after an earlier one
SecondReturned == main.pc = "tokenize" /\ main.returned # <<>>

\* C16: with the same random draws, two generate calls with identical
\* rules, axiom and iteration count return identical sequences: the result
\* depends on nothing but the rules, the axiom, the iteration count and the
\* draws.
C16_SameInputsSameResult ==
    SecondReturned => l_system.state = main.returned[1]

\* The same, for calls that are each the first call on a new engine
C16_FirstCallsAgree ==
    (SecondReturned /\ main.fresh) => l_system.state = main.returned[1]

LengthCap == 16

\* C17: no generate call returns, or carries into its next pass, a sequence
\* longer than the cap: a pass that produces a longer one ends the call
\* with an IterationOverflow failure.
C17_LengthCapped ==
    /\ [](Len(l_system.state) <= LengthCap)
    /\ [][(/\ l_system.pc = "for_base"
           /\ l_system.k > Len(l_system.rules)
           /\ Len(l_system.new_state) > LengthCap)
          => (main'.pc = "raised" /\ main'.error = "IterationOverflow")]_vars

(***************************************************************************)
(* Claims about a draw call                                                *)
(***************************************************************************)
\* The tokens the loop of draw has processed so far
Processed == SubSeq(drawer.tokens, 1, drawer.next - 1)

InDraw == drawer.pc \in {"loop", "saved"}

\* The symbol of the token is a drawing symbol of the drawer class
IsDrawing(class, token) == extract_symbol(token) \in drawing_symbols(class)

RECURSIVE CountDrawing(_, _)
CountDrawing(class, tokens) ==
    IF tokens = <<>> THEN 0
    ELSE (IF IsDrawing(class, Head(tokens)) THEN 1 ELSE 0)
            + CountDrawing(class, Tail(tokens))

\* As many segments as drawing-symbol tokens processed
C12_Count == InDraw => Len(drawer.segments) = CountDrawing(drawer.kind, Processed)

\* A step of the loop appends one segment, which starts at the cursor, for a
\* drawing-symbol token, and leaves the segments alone for any other token
C12_InOrder ==
    (drawer.pc = "loop" /\ drawer'.pc = "loop") =>
        IF IsDrawing(drawer.kind, drawer.tokens[drawer.next])
        THEN /\ Len(drawer'.segments) = Len(drawer.segments) + 1
             /\ SubSeq(drawer'.segments, 1, Len(drawer.segments)) = drawer.segments
             /\ SubSeq(drawer'.segments[Len(drawer'.segments)], 1, 2)
                    = <<drawer.x, drawer.y>>
        ELSE drawer'.segments = drawer.segments

\* C12: for any token sequence the number of segments emitted equals the
\* number of tokens whose symbol is a drawing symbol of the drawer; turns,
\* brackets, axiom-only and unknown symbols emit none, and the segments are
\* collected in the order of their tokens.
C12_SegmentPerDrawingToken ==
    /\ []C12_Count
    /\ [][C12_InOrder]_vars

\* A list with two drawing tokens, a bracket and an unknown symbol is drawn
C12_Witness ==
    /\ drawer.pc = "saved"
    /\ Len(drawer.tokens) = 4
    /\ Len(drawer.segments) = 2
    /\ drawer.warnings = 1
    /\ \E i \in 1 .. 4 : drawer.tokens[i] = <<"[">>

\* C13: after every token the bounding box contains both endpoints of every
\* segment emitted so far: min_x <= x1, x2 <= max_x and min_y <= y1, y2 <=
\* max_y.
C13_BoxContainsSegments ==
    InDraw =>
        \A i \in 1 .. Len(drawer.segments) :
            /\ drawer.min_x <= drawer.segments[i][1]
            /\ drawer.segments[i][1] <= drawer.max_x
            /\ drawer.min_x <= drawer.segments[i][3]
            /\ drawer.segments[i][3] <= drawer.max_x
            /\ drawer.min_y <= drawer.segments[i][2]
            /\ drawer.segments[i][2] <= drawer.max_y
            /\ drawer.min_y <= drawer.segments[i][4]
            /\ drawer.segments[i][4] <= drawer.max_y

\* Two segments, one ending left of the origin and one right of it
C13_Witness ==
    /\ InDraw
    /\ Len(drawer.segments) = 2
    /\ drawer.min_x < 0
    /\ drawer.max_x > 0
    /\ drawer.max_y > 0

\* No "[" has been processed: no state was ever pushed
NothingPushed == \A i \in 1 .. Len(Processed) : Processed[i] # <<"[">>

\* The token just processed was a "]"
JustClosed == drawer.next > 1 /\ drawer.tokens[drawer.next - 1] = <<"]">>

\* C14: an unmatched "]" never throws and leaves the cursor at the last
\* pushed state, at the origin (0, 0, heading 90 degrees) when no state was
\* ever pushed; after the tokens F ] the cursor is at the origin.
C14_UnmatchedPopRestores ==
    (InDraw /\ JustClosed /\ NothingPushed) =>
        /\ drawer.x = 0
        /\ drawer.y = 0
        /\ drawer.angle = 90000

\* C15: a "]" processed while the state stack is empty is a no-op: the
\* cursor position, the heading, the depth, the stack, the segments and the
\* bounding box are unchanged, nothing is raised or logged, and the loop
\* goes on with the next token.
C15_EmptyPopNoOp ==
    [][(/\ drawer.pc = "loop"
        /\ drawer.next <= Len(drawer.tokens)
        /\ drawer.tokens[drawer.next] = <<"]">>
        /\ drawer.stack = <<>>)
       => drawer' = [drawer EXCEPT !.next = drawer.next + 1]]_vars

\* A "]" has been processed on an empty stack with the cursor away from the
\* origin
C15_Witness ==
    /\ InDraw
    /\ JustClosed
    /\ NothingPushed
    /\ drawer.stack = <<>>
    /\ Len(drawer.segments) >= 1
    /\ drawer.y # 0

\* The tokens whose symbol takes the else branch of the loop
RECURSIVE CountUnknown(_, _)
CountUnknown(class, tokens) ==
    IF tokens = <<>> THEN 0
    ELSE (IF /\ ~IsDrawing(class, Head(tokens))
             /\ extract_symbol(Head(tokens)) \notin
                    {<<"+">>, <<"-">>, <<"[">>, <<"]">>} \cup axiom_symbols(class)
          THEN 1 ELSE 0) + CountUnknown(class, Tail(tokens))

\* The "]" tokens met with `open` states on the stack and none left for them
RECURSIVE CountEmptyPops(_, _)
CountEmptyPops(tokens, open) ==
    IF tokens = <<>> THEN 0
    ELSE IF Head(tokens) = <<"[">> THEN CountEmptyPops(Tail(tokens), open + 1)
    ELSE IF Head(tokens) = <<"]">>
    THEN IF open = 0 THEN 1 + CountEmptyPops(Tail(tokens), 0)
         ELSE CountEmptyPops(Tail(tokens), open - 1)
    ELSE CountEmptyPops(Tail(tokens), open)

\* The non-empty pieces of a parameter text that float() refuses
RECURSIVE CountRefused(_)
CountRefused(pieces) ==
    IF pieces = <<>> THEN 0
    ELSE (IF strip(Head(pieces)) # <<>> /\ ~py_float(strip(Head(pieces))).ok
          THEN 1 ELSE 0) + CountRefused(Tail(pieces))

\* The params of the tokens that parse_params replaces by 0.0
RECURSIVE CountReplacedParams(_)
CountReplacedParams(tokens) ==
    IF tokens = <<>> THEN 0
    ELSE (LET i == FirstGroup(Head(tokens))
          IN  IF i = 0 THEN 0
              ELSE CountRefused(split_commas(
                       Slice(Head(tokens), i + 1, FirstAfter(Head(tokens), ")", i) - 1))))
            + CountReplacedParams(Tail(tokens))

\* C19: every locally recovered condition of a draw call is observable: the
\* number of logged events equals the number of tokens with an unrecognized
\* symbol plus the number of pops on an empty stack plus the number of
\* params replaced by 0.0.
C19_DegradedEventsCounted ==
    drawer.pc = "saved" =>
        drawer.warnings = CountUnknown(drawer.kind, drawer.tokens)
                            + CountEmptyPops(drawer.tokens, 0)
                            + CountReplacedParams(drawer.tokens)

\* The "[" brackets open after the tokens, a "]" closing one when one is open
RECURSIVE OpenBrackets(_, _)
OpenBrackets(tokens, open) ==
    IF tokens = <<>> THEN open
    ELSE IF Head(tokens) = <<"[">> THEN OpenBrackets(Tail(tokens), open + 1)
    ELSE IF Head(tokens) = <<"]">> /\ open > 0 THEN OpenBrackets(Tail(tokens), open - 1)
    ELSE OpenBrackets(Tail(tokens), open)

C20_Depth ==
    InDraw =>
        /\ drawer.depth = Len(drawer.stack)
        /\ drawer.depth >= 0
        /\ drawer.depth = OpenBrackets(Processed, 0)

\* The color of a new segment is the color policy's at the number of open
\* brackets
C20_ColorDepth ==
    (/\ drawer.pc = "loop"
     /\ drawer'.pc = "loop"
     /\ IsDrawing(drawer.kind, drawer.tokens[drawer.next])) =>
        drawer'.colors[Len(drawer'.colors)] =
            get_color(drawer.kind,
                      extract_symbol(drawer.tokens[drawer.next]),
                      parse_params(drawer.tokens[drawer.next]),
                      OpenBrackets(Processed, 0))

\* C20: throughout a draw call, after every token and for any token
\* sequence, depth equals the length of the state stack, so it is never
\* negative, and the depth handed to the color policy for a drawing token is
\* the number of "[" brackets open at that token.
C20_DepthIsStackLength ==
    /\ []C20_Depth
    /\ [][C20_ColorDepth]_vars

\* A segment has been drawn at depth 2 after an unmatched "]"
C20_Witness ==
    /\ InDraw
    /\ drawer.tokens = <<<<"]">>, <<"[">>, <<"[">>, <<"F">>>>
    /\ drawer.next = 5
    /\ drawer.depth = 2
    /\ Len(drawer.segments) = 1
    /\ drawer.kind = "TreeDrawer"
    /\ drawer.colors = <<<<120, 80, 35>>>>

\* The greatest number of "[" open at any point of the tokens, `open` being
\* open before them and `best` the greatest number seen so far
RECURSIVE GreatestDepth(_, _, _)
GreatestDepth(tokens, open, best) ==
    IF tokens = <<>> THEN best
    ELSE IF Head(tokens) = <<"[">>
    THEN GreatestDepth(Tail(tokens), open + 1, Max(best, open + 1))
    ELSE IF Head(tokens) = <<"]">> /\ open > 0
    THEN GreatestDepth(Tail(tokens), open - 1, best)
    ELSE GreatestDepth(Tail(tokens), open, best)

\* C21: the max depth reported at the end of a draw call equals the
\* greatest depth reached at any point of the call, for any token sequence,
\* brackets that are never closed included: for [ [ F it is 2.
C21_MaxDepthReported ==
    drawer.pc = "saved" =>
        /\ drawer.max_depth = GreatestDepth(drawer.tokens, 0, 0)
        /\ drawer.tokens = <<<<"[">>, <<"[">>, <<"F">>>> => drawer.max_depth = 2

\* The same for the token sequences that close every bracket they open
C21_MaxDepthWhenClosed ==
    (drawer.pc = "saved" /\ drawer.depth = 0) =>
        drawer.max_depth = GreatestDepth(drawer.tokens, 0, 0)

\* The body of the loop of draw on the next token
LoopBody(D) ==
    LET branch == draw_branch(D)
    IN  IF branch = "draw" THEN draw_segment(D)
        ELSE IF branch = "+" THEN turn_plus(D)
        ELSE IF branch = "-" THEN turn_minus(D)
        ELSE IF branch = "[" THEN push_state(D)
        ELSE IF branch = "]" THEN pop_state(D)
        ELSE IF branch = "axiom" THEN skip_axiom(D)
        ELSE warn_unknown(D)

\* The draw call of the drawer after its first n tokens
RECURSIVE After(_)
After(n) ==
    IF n = 0 THEN draw_enter(drawer, drawer.tokens) ELSE LoopBody(After(n - 1))

\* The number of "[" open after the first n tokens
OpenAfter(n) == OpenBrackets(SubSeq(drawer.tokens, 1, n), 0)

\* Token i is a "[" and token j is the "]" that closes it
Matching(i, j) ==
    /\ i < j
    /\ drawer.tokens[i] = <<"[">>
    /\ drawer.tokens[j] = <<"]">>
    /\ OpenAfter(j) = OpenAfter(i - 1)
    /\ \A k \in i .. j - 1 : OpenAfter(k) > OpenAfter(i - 1)

\* C22: for a "[" and its matching "]", the cursor position, the heading
\* and the depth right after the "]" are those right before the "[",
\* whatever was drawn, turned and bracketed in between; the segments
\* emitted in between are kept and the bounding box is not shrunk.
C22_LifoRestore ==
    (InDraw /\ JustClosed) =>
        \A i \in 1 .. drawer.next - 2 :
            Matching(i, drawer.next - 1) =>
                LET before == After(i - 1)
                IN  /\ drawer.x = before.x
                    /\ drawer.y = before.y
                    /\ drawer.angle = before.angle
                    /\ drawer.depth = before.depth
                    /\ drawer.stack = before.stack
                    /\ Len(drawer.segments) =
                          Len(before.segments)
                            + CountDrawing(drawer.kind,
                                           SubSeq(drawer.tokens, i, drawer.next - 1))
                    /\ SubSeq(drawer.segments, 1, Len(before.segments)) = before.segments
                    /\ drawer.min_x <= before.min_x
                    /\ drawer.max_x >= before.max_x
                    /\ drawer.min_y <= before.min_y
                    /\ drawer.max_y >= before.max_y

\* [ + F ] has been drawn: the cursor is back at the origin with heading 90
\* degrees, the segment is kept and the box reaches left of the origin
C22_Witness ==
    /\ InDraw
    /\ drawer.tokens = <<<<"[">>, <<"+">>, <<"F">>, <<"]">>>>
    /\ drawer.next = 5
    /\ Matching(1, 4)
    /\ drawer.x = 0
    /\ drawer.y = 0
    /\ drawer.angle = 90000
    /\ drawer.depth = 0
    /\ Len(drawer.segments) = 1
    /\ drawer.min_x < 0

(***************************************************************************)
(* Claims about generate calls that continue                               *)
(***************************************************************************)
\* Every symbol of the rule table has one rule, a literal one
SingleLiteralRules(table) ==
    \A k \in 1 .. Len(table) :
        /\ Len(table[k].rules) = 1
        /\ table[k].rules[1].replacement.kind = "str"

\* generate(0) returns the state the engine had, the axiom on a new engine;
\* generate(n) then generate(m) on one engine return what generate(n + m)
\* returns on a new one
C23_Returned ==
    main.pc = "tokenize" =>
        /\ (main.init_iter = 0 /\ main.fresh) => l_system.state = l_system.axiom
        /\ (main.init_iter = 0 /\ ~main.fresh) =>
                l_system.state = main.returned[Len(main.returned)]
        /\ (main.whole /\ SingleLiteralRules(l_system.rules)) =>
                l_system.state = main.returned[Len(main.returned)]

\* No step of a generate call changes the rule table or the axiom field
C23_Frame ==
    /\ l_system'.rules = l_system.rules
    /\ l_system'.axiom = l_system.axiom

\* C23: generate rewrites the engine's stored state, not the axiom:
\* generate(0) returns the current state unchanged, the axiom on a new
\* engine; with one literal rule per symbol, generate(n) followed by
\* generate(m) on one engine leaves and returns the state a single
\* generate(n + m) returns on a new engine of the same axiom and rules; no
\* generate call changes the rule table or the axiom field.
C23_GenerateContinues ==
    /\ []C23_Returned
    /\ [][C23_Frame]_vars

\* generate(1) and generate(1) on one engine, then generate(2) on a new one,
\* have returned, for the branching rule and the doubling rule
C23_Witness ==
    /\ main.pc = "tokenize"
    /\ main.whole
    /\ main.init_iter = 2
    /\ main.template = [BinaryTree EXCEPT !.iterations = 1]
    /\ Len(main.returned) = 2
    /\ main.returned[1] # main.returned[2]
    /\ main.returned[1] # l_system.axiom
    /\ l_system.state = main.returned[2]

====
